---- MODULE Spec2Model ----
(***************************************************************************)
(* Model of the ses-forwarder Lambda handler (package handler).            *)
(*                                                                         *)
(* Text is modelled as a sequence of tokens.  Every text the program       *)
(* inspects character by character (verdicts, header names, address        *)
(* values, header punctuation) is a sequence of one-character tokens;      *)
(* texts the program only copies (message ids, error causes, the fixed     *)
(* parts of log lines) are single opaque tokens.  Concatenation is \o.     *)
(***************************************************************************)
EXTENDS Integers, Sequences, FiniteSets, TLC

(***************************************************************************)
(* Bounds of the model.                                                    *)
(***************************************************************************)
MaxRecords == 2

MaxHeaders == 3

\* How many times HandleEvent is entered at most.
MaxInvocations == 2

(***************************************************************************)
(* Text helpers: strings.ToUpper, strings.Replace(s, old, new, 1).         *)
(***************************************************************************)
LowerLetters == <<"a","b","c","d","e","f","g","h","i","j","k","l","m",
                  "n","o","p","q","r","s","t","u","v","w","x","y","z">>

UpperLetters == <<"A","B","C","D","E","F","G","H","I","J","K","L","M",
                  "N","O","P","Q","R","S","T","U","V","W","X","Y","Z">>

ToUpperChar(c) ==
    IF \E k \in 1..Len(LowerLetters) : LowerLetters[k] = c
    THEN UpperLetters[CHOOSE k \in 1..Len(LowerLetters) : LowerLetters[k] = c]
    ELSE c

ToLowerChar(c) ==
    IF \E k \in 1..Len(UpperLetters) : UpperLetters[k] = c
    THEN LowerLetters[CHOOSE k \in 1..Len(UpperLetters) : UpperLetters[k] = c]
    ELSE c

ToUpper(s) == [k \in 1..Len(s) |-> ToUpperChar(s[k])]

\* Index of the first occurrence of token c in s, 0 when there is none.
IndexOf(s, c) ==
    IF \E k \in 1..Len(s) : s[k] = c
    THEN CHOOSE k \in 1..Len(s) : s[k] = c /\ \A j \in 1..(k-1) : s[j] # c
    ELSE 0

\* strings.Replace(s, old, new, 1) for a one-character old.
ReplaceFirst(s, old, new) ==
    LET k == IndexOf(s, old)
    IN  IF k = 0 THEN s
        ELSE SubSeq(s, 1, k-1) \o new \o SubSeq(s, k+1, Len(s))

(***************************************************************************)
(* Go error values.                                                        *)
(***************************************************************************)
NilErr == [isNil |-> TRUE, msg |-> <<>>]

Err(m) == [isNil |-> FALSE, msg |-> m]

(***************************************************************************)
(* Handler.Options, as the handler tests configure it.                     *)
(***************************************************************************)
BucketName == <<"mail.bar.com">>

IncomingPrefix == <<"incoming">>

EmailDomainName == <<"bar.com">>

SenderAddress == <<"s","@","x">>

ForwardingAddress == <<"foo@bar.com">>

ConfigurationSet == <<"bar.com">>

(***************************************************************************)
(* GetOptions: the settings read from the environment.                     *)
(***************************************************************************)
EnvVars ==
    {"BUCKET_NAME", "INCOMING_PREFIX", "EMAIL_DOMAIN_NAME", "SENDER_ADDRESS",
     "FORWARDING_ADDRESS", "CONFIGURATION_SET"}

\* The Options struct with every field at its zero value.
ZeroOptions ==
    [BucketName |-> <<>>, IncomingPrefix |-> <<>>, SenderAddress |-> <<>>,
     ForwardingAddress |-> <<>>, ConfigurationSet |-> <<>>]

\* The calls of assign made by environment.options, in order.
Assignments ==
    <<[field |-> "BucketName",        varname |-> "BUCKET_NAME"],
      [field |-> "IncomingPrefix",    varname |-> "INCOMING_PREFIX"],
      [field |-> "SenderAddress",     varname |-> "SENDER_ADDRESS"],
      [field |-> "ForwardingAddress", varname |-> "FORWARDING_ADDRESS"],
      [field |-> "ConfigurationSet",  varname |-> "CONFIGURATION_SET"]>>

\* An environment: st.getenv, st.undefinedVars, and the Options being filled.
NewEnvironment(getenv) ==
    [getenv |-> getenv, undefinedVars |-> <<>>, opts |-> ZeroOptions]

\* Only the first undefined variable is recorded.
assign_FirstOnly(st, field, varname) ==
    IF st.getenv[varname] = <<>>
    THEN IF st.undefinedVars = <<>>
         THEN [st EXCEPT !.undefinedVars = Append(@, varname)]
         ELSE st
    ELSE [st EXCEPT !.opts[field] = st.getenv[varname]]

assign(st, field, varname) ==
    IF st.getenv[varname] = <<>>
    THEN [st EXCEPT !.undefinedVars = Append(@, varname)]
    ELSE [st EXCEPT !.opts[field] = st.getenv[varname]]

\* The assignments from the k-th on.
RECURSIVE assignAll(_, _)
assignAll(st, k) ==
    IF k > Len(Assignments) THEN st
    ELSE assignAll(assign(st, Assignments[k].field, Assignments[k].varname), k + 1)

\* UndefinedEnvVarsError.Error()
RECURSIVE JoinVars(_)
JoinVars(names) ==
    IF names = <<>> THEN <<>>
    ELSE IF Len(names) = 1 THEN <<names[1]>>
    ELSE <<names[1], ", ">> \o JoinVars(Tail(names))

UndefinedEnvVarsError(names) ==
    [isNil |-> FALSE, UndefinedVars |-> names,
     msg |-> <<"undefined environment variables: ">> \o JoinVars(names)]

\* environment.options once every assign has run.
optionsResult(st) ==
    IF Len(st.undefinedVars) # 0
    THEN [isNil |-> TRUE, opts |-> ZeroOptions,
          err |-> UndefinedEnvVarsError(st.undefinedVars)]
    ELSE [isNil |-> FALSE, opts |-> st.opts,
          err |-> [isNil |-> TRUE, UndefinedVars |-> <<>>, msg |-> <<>>]]

GetOptions(getenv) == optionsResult(assignAll(NewEnvironment(getenv), 1))

\* The environment the Lambda function is deployed with.
HandlerEnv ==
    [v \in EnvVars |->
        CASE v = "BUCKET_NAME"        -> BucketName
          [] v = "INCOMING_PREFIX"    -> IncomingPrefix
          [] v = "EMAIL_DOMAIN_NAME"  -> EmailDomainName
          [] v = "SENDER_ADDRESS"     -> SenderAddress
          [] v = "FORWARDING_ADDRESS" -> ForwardingAddress
          [] v = "CONFIGURATION_SET"  -> ConfigurationSet]

\* A variable is undefined or empty (getenv returns ""), or holds a value.
EnvValues == {<<>>, <<"a">>, <<"b">>}

Environments == [EnvVars -> EnvValues]

(***************************************************************************)
(* Verdict and policy texts of events.SimpleEmailReceipt.                  *)
(***************************************************************************)
V_EMPTY == <<>>

V_PASS == <<"P","A","S","S">>

V_FAIL == <<"F","A","I","L">>

V_fail == <<"f","a","i","l">>

V_Fail == <<"F","a","i","l">>

V_GRAY == <<"G","R","A","Y">>

P_none == <<"n","o","n","e">>

P_reject == <<"r","e","j","e","c","t">>

P_REJECT == <<"R","E","J","E","C","T">>

P_Reject == <<"R","e","j","e","c","t">>

P_quarantine == <<"q","u","a","r","a","n","t","i","n","e">>

(***************************************************************************)
(* Validation Gate: bounceIfDmarcFails, isSpam, validateMessage.           *)
(***************************************************************************)
\* Every entry pointing at the one loop variable, which holds the last
\* recipient once the loop is over.
BouncedRecipientInfoList_LastRecipient(recipients) ==
    [k \in 1..Len(recipients) |->
        [Recipient |-> recipients[Len(recipients)], BounceType |-> "ContentRejected"]]

\* The recipient list handed to SendBounce: one entry per recipient.
BouncedRecipientInfoList(recipients) ==
    [k \in 1..Len(recipients) |->
        [Recipient |-> recipients[k], BounceType |-> "ContentRejected"]]

SendBounceInput(info) ==
    [BounceSender      |-> <<"mailer-daemon@">> \o EmailDomainName,
     OriginalMessageId |-> info.messageId,
     ReportingMta      |-> <<"dns; ">> \o EmailDomainName,
     Explanation       |-> <<"Unauthenticated email is not accepted due to the sending domain's DMARC policy.">>,
     BouncedRecipientInfoList |-> BouncedRecipientInfoList(info.recipients)]

\* A bounce for every DMARC failure, whatever the policy.
bounceIfDmarcFails_IgnoresPolicy(info, resp) ==
    IF ToUpper(info.dmarcVerdict) # V_FAIL
    THEN [called |-> FALSE, bounceMessageId |-> <<>>, err |-> NilErr]
    ELSE IF ~resp.err.isNil
    THEN [called |-> TRUE, bounceMessageId |-> <<>>,
          err |-> Err(<<"DMARC bounce failed: ">> \o resp.err.msg)]
    ELSE [called |-> TRUE, bounceMessageId |-> resp.id, err |-> NilErr]

\* resp is what Ses.SendBounce returns when it is called: [id, err], where
\* id is aws.ToString(output.MessageId).
bounceIfDmarcFails(info, resp) ==
    LET verdict == ToUpper(info.dmarcVerdict)
        policy  == ToUpper(info.dmarcPolicy)
    IN  IF verdict # V_FAIL \/ policy # P_REJECT
        THEN [called |-> FALSE, bounceMessageId |-> <<>>, err |-> NilErr]
        ELSE IF ~resp.err.isNil
        THEN [called |-> TRUE, bounceMessageId |-> <<>>,
              err |-> Err(<<"DMARC bounce failed: ">> \o resp.err.msg)]
        ELSE [called |-> TRUE, bounceMessageId |-> resp.id, err |-> NilErr]

\* isSpam comparing the verdicts as they are, without strings.ToUpper.
isSpam_CaseSensitive(info) ==
    \/ info.spfVerdict = V_FAIL
    \/ info.dkimVerdict = V_FAIL
    \/ info.spamVerdict = V_FAIL
    \/ info.virusVerdict = V_FAIL

isSpam(info) ==
    \/ ToUpper(info.spfVerdict) = V_FAIL
    \/ ToUpper(info.dkimVerdict) = V_FAIL
    \/ ToUpper(info.spamVerdict) = V_FAIL
    \/ ToUpper(info.virusVerdict) = V_FAIL

\* validateMessage that drops the error of bounceIfDmarcFails.
validateMessage_IgnoresBounceError(info, resp) ==
    LET b == bounceIfDmarcFails(info, resp)
    IN  IF b.bounceMessageId # <<>>
        THEN [called |-> b.called,
              err |-> Err(<<"DMARC bounced with bounce ID: ">> \o b.bounceMessageId)]
        ELSE IF isSpam(info)
        THEN [called |-> b.called, err |-> Err(<<"marked as spam, ignoring">>)]
        ELSE [called |-> b.called, err |-> NilErr]

validateMessage(info, resp) ==
    LET b == bounceIfDmarcFails(info, resp)
    IN  IF ~b.err.isNil
        THEN [called |-> b.called, err |-> b.err]
        ELSE IF b.bounceMessageId # <<>>
        THEN [called |-> b.called,
              err |-> Err(<<"DMARC bounced with bounce ID: ">> \o b.bounceMessageId)]
        ELSE IF isSpam(info)
        THEN [called |-> b.called, err |-> Err(<<"marked as spam, ignoring">>)]
        ELSE [called |-> b.called, err |-> NilErr]

(***************************************************************************)
(* net/mail and net/textproto, as far as the handler relies on them.       *)
(***************************************************************************)
SP == " "

DQ == "\""

CRLF == "\r\n"

Specials == {" ", "@", "<", ">", "\"", ",", ":", ";", "(", ")", "[", "]", "\\", "\r\n"}

IsAtext(c) == c \notin Specials

\* Length of the longest prefix of s made of atext characters.
AtomLen(s) ==
    IF \A k \in 1..Len(s) : IsAtext(s[k]) THEN Len(s)
    ELSE (CHOOSE k \in 1..Len(s) :
            ~IsAtext(s[k]) /\ \A j \in 1..(k-1) : IsAtext(s[j])) - 1

SkipSpace(s) ==
    IF \A k \in 1..Len(s) : s[k] = SP THEN <<>>
    ELSE LET first == CHOOSE k \in 1..Len(s) :
                        s[k] # SP /\ \A j \in 1..(k-1) : s[j] = SP
         IN  SubSeq(s, first, Len(s))

RECURSIVE TrimRight(_)
TrimRight(s) ==
    IF s # <<>> /\ s[Len(s)] = SP THEN TrimRight(SubSeq(s, 1, Len(s)-1)) ELSE s

TrimSpace(s) == TrimRight(SkipSpace(s))

\* addrParser.consumeQuotedString: s starts with a double quote.
consumeQuotedString(s) ==
    LET k == IndexOf(Tail(s), DQ)
    IN  IF k = 0 \/ k = 1
        THEN [ok |-> FALSE, text |-> <<>>, rest |-> s]
        ELSE [ok |-> TRUE, text |-> SubSeq(s, 2, k), rest |-> SubSeq(s, k+2, Len(s))]

\* addrParser.consumeAddrSpec: local-part "@" domain.
consumeAddrSpec(s) ==
    LET fail  == [ok |-> FALSE, spec |-> <<>>, rest |-> s]
        local == IF s # <<>> /\ s[1] = DQ
                 THEN consumeQuotedString(s)
                 ELSE [ok   |-> AtomLen(s) > 0,
                       text |-> SubSeq(s, 1, AtomLen(s)),
                       rest |-> SubSeq(s, AtomLen(s)+1, Len(s))]
    IN  IF ~local.ok THEN fail
        ELSE IF local.rest = <<>> \/ local.rest[1] # "@" THEN fail
        ELSE LET d == Tail(local.rest)
                 n == AtomLen(d)
             IN  IF n = 0 THEN fail
                 ELSE [ok   |-> TRUE,
                       spec |-> local.text \o <<"@">> \o SubSeq(d, 1, n),
                       rest |-> SubSeq(d, n+1, Len(d))]

\* addrParser.consumePhrase: the words of a display name.
RECURSIVE consumePhrase(_)
consumePhrase(s) ==
    LET u == SkipSpace(s)
    IN  IF u = <<>> THEN [words |-> <<>>, rest |-> u]
        ELSE IF u[1] = DQ
        THEN LET q == consumeQuotedString(u)
             IN  IF ~q.ok THEN [words |-> <<>>, rest |-> u]
                 ELSE LET r == consumePhrase(q.rest)
                      IN  [words |-> <<q.text>> \o r.words, rest |-> r.rest]
        ELSE LET n == AtomLen(u)
             IN  IF n = 0 THEN [words |-> <<>>, rest |-> u]
                 ELSE LET r == consumePhrase(SubSeq(u, n+1, Len(u)))
                      IN  [words |-> <<SubSeq(u, 1, n)>> \o r.words, rest |-> r.rest]

\* strings.Join(words, " ")
RECURSIVE JoinWords(_)
JoinWords(words) ==
    IF words = <<>> THEN <<>>
    ELSE IF Len(words) = 1 THEN words[1]
    ELSE words[1] \o <<SP>> \o JoinWords(Tail(words))

\* mail.ParseAddress: one address, either addr-spec or [phrase] "<" addr-spec ">".
ParseAddress(s) ==
    LET t    == SkipSpace(s)
        fail(cause) == [err |-> Err(cause), Name |-> <<>>, Address |-> <<>>]
        bare == consumeAddrSpec(t)
    IN  IF t = <<>> THEN fail(<<"mail: no address">>)
        ELSE IF bare.ok
        THEN IF SkipSpace(bare.rest) # <<>>
             THEN fail(<<"mail: expected single address">>)
             ELSE [err |-> NilErr, Name |-> <<>>, Address |-> bare.spec]
        ELSE LET ph == IF t[1] = "<" THEN [words |-> <<>>, rest |-> t]
                       ELSE consumePhrase(t)
                 u  == SkipSpace(ph.rest)
             IN  IF t[1] # "<" /\ ph.words = <<>>
                 THEN fail(<<"mail: missing word in phrase">>)
                 ELSE IF u = <<>> \/ u[1] # "<"
                 THEN fail(<<"mail: no angle-addr">>)
                 ELSE LET a == consumeAddrSpec(Tail(u))
                      IN  IF ~a.ok THEN fail(<<"mail: missing @ in addr-spec">>)
                          ELSE IF a.rest = <<>> \/ a.rest[1] # ">"
                          THEN fail(<<"mail: unclosed angle-addr">>)
                          ELSE IF SkipSpace(Tail(a.rest)) # <<>>
                          THEN fail(<<"mail: expected single address">>)
                          ELSE [err |-> NilErr, Name |-> JoinWords(ph.words),
                                Address |-> a.spec]

\* textproto.CanonicalMIMEHeaderKey: upper case at the start and after "-".
CanonicalMIMEHeaderKey(name) ==
    [k \in 1..Len(name) |->
        IF k = 1 \/ name[k-1] = "-" THEN ToUpperChar(name[k])
        ELSE ToLowerChar(name[k])]

\* The header lines of raw up to the first blank line, and the body after it.
RECURSIVE ReadHeaderLines(_)
ReadHeaderLines(raw) ==
    LET k == IndexOf(raw, CRLF)
    IN  IF k = 0
        THEN IF raw # <<>> /\ IndexOf(raw, ":") = 0
             THEN [err |-> Err(<<"malformed MIME header line: ">> \o raw),
                   lines |-> <<>>, body |-> <<>>]
             ELSE [err |-> Err(<<"EOF">>), lines |-> <<>>, body |-> <<>>]
        ELSE IF k = 1
        THEN [err |-> NilErr, lines |-> <<>>, body |-> Tail(raw)]
        ELSE LET line == SubSeq(raw, 1, k-1)
                 r    == ReadHeaderLines(SubSeq(raw, k+1, Len(raw)))
             IN  IF IndexOf(line, ":") = 0
                 THEN [err |-> Err(<<"malformed MIME header line: ">> \o line),
                       lines |-> <<>>, body |-> <<>>]
                 ELSE IF ~r.err.isNil THEN r
                 ELSE [err |-> NilErr, lines |-> <<line>> \o r.lines, body |-> r.body]

\* One header line "name: value" as a key/value pair.
ParseHeaderLine(line) ==
    LET k == IndexOf(line, ":")
    IN  [key   |-> CanonicalMIMEHeaderKey(SubSeq(line, 1, k-1)),
         value |-> TrimSpace(SubSeq(line, k+1, Len(line)))]

\* mail.ReadMessage: Header maps each canonical key to its values, in the
\* order the lines appear; Body is what follows the blank line.
ReadMessage(raw) ==
    LET r     == ReadHeaderLines(raw)
        pairs == [k \in 1..Len(r.lines) |-> ParseHeaderLine(r.lines[k])]
        keys  == {pairs[k].key : k \in 1..Len(pairs)}
        valuesOf(key) ==
            LET sel == SelectSeq(pairs, LAMBDA p : p.key = key)
            IN  [k \in 1..Len(sel) |-> sel[k].value]
    IN  IF ~r.err.isNil
        THEN [err |-> r.err, Header |-> <<>>, Body |-> <<>>]
        ELSE [err |-> NilErr,
              Header |-> [key \in keys |-> valuesOf(key)],
              Body |-> r.body]

\* mail.Header.Get: the first value of the key, "" when absent.
HeaderGet(headers, key) ==
    LET ck == CanonicalMIMEHeaderKey(key)
    IN  IF ck \in DOMAIN headers /\ headers[ck] # <<>> THEN headers[ck][1] ELSE <<>>

(***************************************************************************)
(* Header Rewriter: header_buffer.go.                                      *)
(***************************************************************************)
H_From == <<"F","r","o","m">>

H_ReplyTo == <<"R","e","p","l","y","-","T","o">>

H_To == <<"T","o">>

H_Cc == <<"C","c">>

H_Bcc == <<"B","c","c">>

H_Subject == <<"S","u","b","j","e","c","t">>

H_MimeVersion == <<"M","i","m","e","-","V","e","r","s","i","o","n">>

H_MIMEVersion == <<"M","I","M","E","-","V","e","r","s","i","o","n">>

H_ContentType == <<"C","o","n","t","e","n","t","-","T","y","p","e">>

\* A keep list that lets the routing trace through.
keepHeaders_AndReceived ==
    <<H_To, H_Cc, H_Bcc, H_Subject, H_MimeVersion, H_ContentType,
      <<"R","e","c","e","i","v","e","d">>>>

keepHeaders == <<H_To, H_Cc, H_Bcc, H_Subject, H_MimeVersion, H_ContentType>>

origLinkHeaderPrefix ==
    <<"X","-","S","E","S","-","F","o","r","w","a","r","d","e","r","-",
      "O","r","i","g","i","n","a","l",":"," ","s3://">>

\* A headerBuffer over a writer whose failAt-th Write fails (0: never, as
\* for the bytes.Buffer updateMessage uses).  writes counts the Write calls
\* that reached the writer.
NewHeaderBuffer(failAt) ==
    [buf |-> <<>>, err |-> NilErr, writes |-> 0, failAt |-> failAt]

\* write without the test of hb.err: every call reaches the writer and the
\* error is whatever the last Write returned.
write_Unguarded(hb, s) ==
    IF hb.failAt = hb.writes + 1
    THEN [hb EXCEPT !.writes = @ + 1, !.err = Err(<<"write error">>)]
    ELSE [hb EXCEPT !.writes = @ + 1, !.buf = @ \o s, !.err = NilErr]

write(hb, s) ==
    IF hb.err.isNil
    THEN IF hb.failAt = hb.writes + 1
         THEN [hb EXCEPT !.writes = @ + 1, !.err = Err(<<"write error">>)]
         ELSE [hb EXCEPT !.writes = @ + 1, !.buf = @ \o s]
    ELSE hb

RECURSIVE writeValues(_, _, _)
writeValues(hb, name, values) ==
    IF values = <<>> THEN hb
    ELSE writeValues(write(hb, name \o <<":", " ">> \o values[1] \o <<CRLF>>),
                     name, Tail(values))

\* writeHeader emitting the name as it is in keepHeaders.
writeHeader_CanonicalKey(hb, name, values) == writeValues(hb, name, values)

writeHeader(hb, name, values) ==
    writeValues(hb, IF name = H_MimeVersion THEN H_MIMEVersion ELSE name, values)

\* The else branch of newFromAddress, and its error branch, for the parsed addr.
formatNewFrom(addr, origFrom, newFrom) ==
    IF ~addr.err.isNil
    THEN [result |-> <<>>,
          err |-> Err(<<"couldn't parse From address ">> \o origFrom
                      \o <<": ">> \o addr.err.msg)]
    ELSE [result |-> (IF addr.Name # <<>>
                      THEN addr.Name \o <<" ", "-", " ">> ELSE addr.Name)
                     \o ReplaceFirst(addr.Address, "@", <<" ", "a", "t", " ">>)
                     \o <<" ", "<">> \o newFrom \o <<">">>,
          err |-> NilErr]

\* The older format of the new From value: "<name> at <address> <sender>".
newFromAddress_OldFormat(origFrom, newFrom) ==
    IF ~ParseAddress(origFrom).err.isNil
    THEN formatNewFrom(ParseAddress(origFrom), origFrom, newFrom)
    ELSE [result |-> ParseAddress(origFrom).Name \o <<" ", "a", "t", " ">>
                     \o ParseAddress(origFrom).Address
                     \o <<" ", "<">> \o newFrom \o <<">">>,
          err |-> NilErr]

newFromAddress(origFrom, newFrom) ==
    formatNewFrom(ParseAddress(origFrom), origFrom, newFrom)

\* A missing Reply-To filled with the rewritten From value.
writeNewFromAndReplyTo_RewrittenFrom(hb, origFrom, replyTo, nf) ==
    IF ~nf.err.isNil THEN [hb EXCEPT !.err = nf.err]
    ELSE writeHeader(writeHeader([hb EXCEPT !.err = nf.err], H_From, <<nf.result>>),
                     H_ReplyTo, <<IF replyTo = <<>> THEN nf.result ELSE replyTo>>)

\* writeFromAndReplyTo once newFromAddress has returned nf.
writeNewFromAndReplyTo(hb, origFrom, replyTo, nf) ==
    IF ~nf.err.isNil THEN [hb EXCEPT !.err = nf.err]
    ELSE writeHeader(writeHeader([hb EXCEPT !.err = nf.err], H_From, <<nf.result>>),
                     H_ReplyTo, <<IF replyTo = <<>> THEN origFrom ELSE replyTo>>)

\* Reply-To copied with all its values whenever the header is present,
\* also when a value is empty.
writeFromAndReplyTo_CopiesReplyTo(hb, headers, sender) ==
    IF H_ReplyTo \in DOMAIN headers
          /\ newFromAddress(HeaderGet(headers, H_From), sender).err.isNil
    THEN writeHeader(
            writeHeader([hb EXCEPT !.err = NilErr], H_From,
                        <<newFromAddress(HeaderGet(headers, H_From), sender).result>>),
            H_ReplyTo, headers[H_ReplyTo])
    ELSE writeNewFromAndReplyTo(hb, HeaderGet(headers, H_From), <<>>,
                                newFromAddress(HeaderGet(headers, H_From), sender))

writeFromAndReplyTo(hb, headers, sender) ==
    writeNewFromAndReplyTo(hb, HeaderGet(headers, H_From), HeaderGet(headers, H_ReplyTo),
                           newFromAddress(HeaderGet(headers, H_From), sender))

\* The kept headers written from the last entry of keepHeaders to the first.
RECURSIVE writeKeptHeaders_Reversed(_, _, _)
writeKeptHeaders_Reversed(hb, headers, k) ==
    IF k > Len(keepHeaders) THEN hb
    ELSE writeKeptHeaders_Reversed(
            IF keepHeaders[Len(keepHeaders) + 1 - k] \in DOMAIN headers
            THEN writeHeader(hb, keepHeaders[Len(keepHeaders) + 1 - k],
                             headers[keepHeaders[Len(keepHeaders) + 1 - k]])
            ELSE hb,
            headers, k + 1)

\* The loop over keepHeaders, from its k-th entry on.
RECURSIVE writeKeptHeaders(_, _, _)
writeKeptHeaders(hb, headers, k) ==
    IF k > Len(keepHeaders) THEN hb
    ELSE writeKeptHeaders(
            IF keepHeaders[k] \in DOMAIN headers
            THEN writeHeader(hb, keepHeaders[k], headers[keepHeaders[k]])
            ELSE hb,
            headers, k + 1)

\* WriteUpdatedHeaders returning nil without looking at hb.err.
updatedHeadersResult_NoErrorCheck(hb) == [hb |-> hb, err |-> NilErr]

\* What WriteUpdatedHeaders returns for the buffer it has filled.
updatedHeadersResult(hb) ==
    [hb  |-> hb,
     err |-> IF ~hb.err.isNil
             THEN Err(<<"error updating email headers: ">> \o hb.err.msg)
             ELSE NilErr]

\* The provenance line written right after From and Reply-To, before the
\* kept headers.
WriteUpdatedHeaders_LinkFirst(hb, input) ==
    updatedHeadersResult(
        write(writeKeptHeaders(
                  write(writeFromAndReplyTo(hb, input.headers, input.senderAddress),
                        origLinkHeaderPrefix \o input.msgPath \o <<CRLF>>),
                  input.headers, 1),
              <<CRLF>>))

\* input is an updateHeadersInput; returns the buffer and the error.
WriteUpdatedHeaders(hb, input) ==
    updatedHeadersResult(
        write(writeKeptHeaders(
                  writeFromAndReplyTo(hb, input.headers, input.senderAddress),
                  input.headers, 1),
              origLinkHeaderPrefix \o input.msgPath \o <<CRLF, CRLF>>))

(***************************************************************************)
(* Handler: updateMessage, getOriginalMessage, forwardMessage.             *)
(***************************************************************************)
\* updateMessage returning the rewritten header block without the body.
appendBody_HeadersOnly(w, body) ==
    IF ~w.err.isNil THEN [bytes |-> <<>>, err |-> w.err, written |-> w.hb.buf]
    ELSE [bytes |-> w.hb.buf, err |-> NilErr, written |-> w.hb.buf]

\* updateMessage after WriteUpdatedHeaders returned w: the body is appended.
\* written is what the header buffer's writer received.
appendBody(w, body) ==
    IF ~w.err.isNil THEN [bytes |-> <<>>, err |-> w.err, written |-> w.hb.buf]
    ELSE [bytes |-> w.hb.buf \o body, err |-> NilErr, written |-> w.hb.buf]

\* updateMessage going on with the headers read so far when
\* mail.ReadMessage returned an error.
updateParsedMessage_IgnoresParseError(m, key) ==
    appendBody(
        WriteUpdatedHeaders(NewHeaderBuffer(0),
                            [headers |-> m.Header, senderAddress |-> SenderAddress,
                             msgPath |-> BucketName \o <<"/">> \o key]),
        m.Body)

\* updateMessage after mail.ReadMessage returned m.
updateParsedMessage(m, key) ==
    IF ~m.err.isNil
    THEN [bytes |-> <<>>, err |-> Err(<<"failed to parse message: ">> \o m.err.msg),
          written |-> <<>>]
    ELSE appendBody(
            WriteUpdatedHeaders(NewHeaderBuffer(0),
                                [headers |-> m.Header, senderAddress |-> SenderAddress,
                                 msgPath |-> BucketName \o <<"/">> \o key]),
            m.Body)

updateMessage(msg, key) == updateParsedMessage(ReadMessage(msg), key)

\* resp is what S3.GetObject returns: [body, readErr, err]; body is what
\* io.ReadAll reads from output.Body and readErr the error it meets.
getOriginalMessage(resp) ==
    LET msg == IF resp.err.isNil THEN resp.body ELSE <<>>
        err == IF resp.err.isNil THEN resp.readErr ELSE resp.err
    IN  [msg |-> msg,
         err |-> IF ~err.isNil
                 THEN Err(<<"failed to get original message: ">> \o err.msg)
                 ELSE NilErr]

SendEmailInput(msg) ==
    [ConfigurationSetName |-> ConfigurationSet,
     Data |-> msg,
     ToAddresses |-> <<ForwardingAddress>>]

\* resp is what SesV2.SendEmail returns: [id, err].
forwardMessage(resp) ==
    IF ~resp.err.isNil
    THEN [forwardedMessageId |-> <<>>, err |-> Err(<<"send failed: ">> \o resp.err.msg)]
    ELSE [forwardedMessageId |-> resp.id, err |-> NilErr]

(***************************************************************************)
(* Inputs: messages in the store, event records, collaborator responses.   *)
(***************************************************************************)
\* Raw bytes of a message with the given header lines and body.
RECURSIVE BuildHeaderBlock(_)
BuildHeaderBlock(lines) ==
    IF lines = <<>> THEN <<>>
    ELSE lines[1].name \o <<":", " ">> \o lines[1].value \o <<CRLF>>
         \o BuildHeaderBlock(Tail(lines))

BuildMessage(lines, body) == BuildHeaderBlock(lines) \o <<CRLF>> \o body

F_Named == <<"M", " ", "<", "m", "@", "a", ">">>

F_QuotedLocal == <<DQ, "q", "@", "r", DQ, "@", "a">>

F_Malformed == <<"M", " ", "B", " ", "m", "@", "a">>

R_Addr == <<"r", "@", "b">>

L_FromNamed == [name |-> H_From, value |-> F_Named]

L_FromQuoted == [name |-> H_From, value |-> F_QuotedLocal]

L_FromMalformed == [name |-> H_From, value |-> F_Malformed]

L_ReplyTo == [name |-> H_ReplyTo, value |-> R_Addr]

L_ReplyToEmpty == [name |-> H_ReplyTo, value |-> <<>>]

L_To1 == [name |-> H_To, value |-> <<"t1">>]

L_To2 == [name |-> H_To, value |-> <<"t2">>]

L_Cc == [name |-> H_Cc, value |-> <<"c1">>]

L_Bcc == [name |-> H_Bcc, value |-> <<"b1">>]

L_Subject == [name |-> H_Subject, value |-> <<"subject">>]

L_MIMEVersion == [name |-> H_MIMEVersion, value |-> <<"1.0">>]

L_ContentType == [name |-> H_ContentType, value |-> <<"text/plain">>]

\* MIME-Version as other mail servers spell it.
L_MimeVersionTitle == [name |-> H_MimeVersion, value |-> <<"1.0">>]

L_MimeVersionLower ==
    [name |-> <<"m","i","m","e","-","v","e","r","s","i","o","n">>,
     value |-> <<"1.0", " ", "(lower)">>]

L_MimeVersionUpper ==
    [name |-> <<"M","I","M","E","-","V","E","R","S","I","O","N">>,
     value |-> <<"1.0", " ", "(upper)">>]

L_Received == [name |-> <<"R","e","c","e","i","v","e","d">>, value |-> <<"by ...">>]

L_ReturnPath ==
    [name |-> <<"R","e","t","u","r","n","-","P","a","t","h">>,
     value |-> <<"<", "b", "@", "f", ">">>]

L_SpamVerdict ==
    [name |-> <<"X","-","S","E","S","-","S","p","a","m","-","V","e","r","d","i","c","t">>,
     value |-> <<"P", "A", "S", "S">>]

L_MessageID ==
    [name |-> <<"M","e","s","s","a","g","e","-","I","D">>, value |-> <<"<", "...", ">">>]

L_Date == [name |-> <<"D","a","t","e">>, value |-> <<"Fri, 18 Sep 1970 12:45:00 +0000">>]

\* A provenance header the original already carries.
L_OrigLink ==
    [name |-> <<"X","-","S","E","S","-","F","o","r","w","a","r","d","e","r","-",
                "O","r","i","g","i","n","a","l">>,
     value |-> <<"s3://", "elsewhere">>]

HeaderPool ==
    {L_FromNamed, L_FromQuoted, L_FromMalformed, L_ReplyTo, L_ReplyToEmpty,
     L_To1, L_To2, L_Cc, L_Bcc, L_Subject, L_MIMEVersion, L_ContentType,
     L_Received}

MsgBody == <<"body line 1", CRLF, "body line 2", CRLF>>

\* A body holding a blank line and a line that looks like a header.
MsgBodyWithHeaderLine ==
    <<"body line 1", CRLF, CRLF, "T", "o", ":", " ", "x", CRLF, CRLF, "end">>

NotAnEmail == <<"not an email">>

\* Header lists of at most MaxHeaders distinct lines of the pool, any order.
HeaderLists ==
    {hs \in UNION {[1..n -> HeaderPool] : n \in 0..MaxHeaders} :
        \A a, b \in 1..Len(hs) : a # b => hs[a] # hs[b]}

RewriteMessages ==
    {BuildMessage(hs, MsgBody) : hs \in HeaderLists}
        \cup {NotAnEmail, BuildMessage(<<L_FromNamed>>, <<>>),
              BuildMessage(<<L_Subject, L_FromNamed>>, MsgBodyWithHeaderLine),
              BuildMessage(<<L_ReturnPath, L_SpamVerdict, L_FromNamed, L_MessageID, L_To1>>,
                           MsgBody),
              BuildMessage(<<L_Date, L_OrigLink, L_FromQuoted, L_Subject>>, MsgBody),
              BuildMessage(<<L_FromNamed, L_MimeVersionTitle, L_To1>>, MsgBody),
              BuildMessage(<<L_MimeVersionLower, L_FromNamed, L_ContentType>>, MsgBody),
              BuildMessage(<<L_MimeVersionUpper, L_FromQuoted, L_MIMEVersion,
                             L_MimeVersionLower>>, MsgBody),
              <<>>, BuildHeaderBlock(<<L_FromNamed, L_To1>>)}

\* A message that went through a forwarder before: it carries a provenance
\* header of its own.
GoodMessage ==
    BuildMessage(<<L_Received, L_OrigLink, L_MIMEVersion, L_FromNamed, L_To1>>, MsgBody)

BadFromMessage == BuildMessage(<<L_FromMalformed, L_To1>>, MsgBody)

\* A message without any From header.
NoFromMessage == BuildMessage(<<L_To1, L_Subject>>, MsgBody)

StoredMessages == {GoodMessage, BadFromMessage, NoFromMessage, NotAnEmail}

MessageIds == {<<"deadbeef">>, <<"beefdead">>}

Record(id, rcpts, dmarc, policy, spf, dkim, spam, virus) ==
    [messageId |-> id, recipients |-> rcpts,
     dmarcVerdict |-> dmarc, dmarcPolicy |-> policy,
     spfVerdict |-> spf, dkimVerdict |-> dkim,
     spamVerdict |-> spam, virusVerdict |-> virus]

\* Records of the batches: a passing one under each id, a spam one, a DMARC
\* failure under policy none, and two that meet the DMARC bounce condition.
RecordPool ==
    {Record(id, <<"r1">>, V_PASS, P_none, V_PASS, V_PASS, V_PASS, V_PASS) : id \in MessageIds}
    \cup {Record(<<"deadbeef">>, <<"r1">>, V_EMPTY, <<>>, V_EMPTY, V_EMPTY, V_FAIL, V_EMPTY),
          Record(<<"beefdead">>, <<"r1">>, V_FAIL, P_none, V_PASS, V_GRAY, V_PASS, V_PASS),
          Record(<<"deadbeef">>, <<"r1", "r2">>, V_fail, P_reject, V_PASS, V_PASS, V_PASS, V_PASS),
          Record(<<"beefdead">>, <<"r1", "r2">>, V_FAIL, P_REJECT, V_fail, V_PASS, V_PASS, V_FAIL)}

Batches == UNION {[1..n -> RecordPool] : n \in 0..MaxRecords}

VerdictTexts == {V_PASS, V_GRAY, V_FAIL, V_Fail}

DmarcVerdictTexts == {V_EMPTY, V_PASS, V_GRAY, V_FAIL, V_fail, V_Fail}

PolicyTexts == {<<>>, P_none, P_quarantine, P_reject, P_Reject}

V_PROCESSING_FAILED ==
    <<"P","R","O","C","E","S","S","I","N","G","_","F","A","I","L","E","D">>

\* Verdicts of a receipt whose checks failed to run or are unspecified.
UndecidedVerdictTexts == {V_PROCESSING_FAILED, V_EMPTY}

\* Batches of one record over every combination of verdicts.
WideBatches ==
    {<<Record(<<"deadbeef">>, <<"r1">>, dmarc, policy, spf, dkim, spam, virus)>> :
        dmarc \in DmarcVerdictTexts, policy \in PolicyTexts,
        spf \in VerdictTexts, dkim \in VerdictTexts,
        spam \in VerdictTexts, virus \in VerdictTexts}
    \cup
    {<<Record(<<"deadbeef">>, <<"r1">>, dmarc, policy, spf, dkim, spam, virus)>> :
        dmarc \in {V_PASS, V_FAIL, V_PROCESSING_FAILED}, policy \in {P_none, P_reject},
        spf \in UndecidedVerdictTexts, dkim \in UndecidedVerdictTexts,
        spam \in UndecidedVerdictTexts, virus \in UndecidedVerdictTexts}

BounceResponses ==
    {[id |-> <<"didBounce">>, err |-> NilErr],
     [id |-> <<>>, err |-> NilErr],
     [id |-> <<>>, err |-> Err(<<"bounce error">>)]}

GetResponses ==
    {[body |-> m, readErr |-> NilErr, err |-> NilErr] : m \in StoredMessages}
    \cup {[body |-> <<>>, readErr |-> NilErr, err |-> Err(<<"s3 error">>)],
          [body |-> <<"From: M <m">>, readErr |-> Err(<<"read error">>), err |-> NilErr]}

SendResponses ==
    {[id |-> <<"fwd-1">>, err |-> NilErr],
     [id |-> <<"fwd-2">>, err |-> NilErr],
     [id |-> <<>>, err |-> Err(<<"SES error">>)]}

(***************************************************************************)
(* State of one Lambda invocation.                                         *)
(*   pc       where HandleEvent / processMessage stands                    *)
(*   records  e.Records of the event being handled                         *)
(*   i        index of the record being processed (1-based)                *)
(*   logs     lines written to h.Log, each tagged with the record index    *)
(*   calls    calls made on S3, Ses and SesV2, with what they returned     *)
(*   orig     bytes getOriginalMessage returned for the current record     *)
(*   updated  bytes updateMessage returned for the current record          *)
(*   result   what HandleEvent returned                                    *)
(*   msgIn, msgOut   input and result of updateMessage for that record     *)
(*   env      the environment GetOptions reads: variable name -> value     *)
(*   options  what GetOptions returned                                     *)
(*   invocations  how many times HandleEvent was entered                   *)
(*   buffer   a headerBuffer over a writer that may fail, driven on its    *)
(*            own by WriteUpdatedHeaders                                   *)
(***************************************************************************)
VARIABLES pc, records, i, logs, calls, orig, updated, result, msgIn, msgOut,
          env, options, invocations, buffer

vars == <<pc, records, i, logs, calls, orig, updated, result, msgIn, msgOut,
          env, options, invocations, buffer>>

NoResult == [disposition |-> "none", err |-> NilErr]

NoOutput == [bytes |-> <<>>, err |-> NilErr, written |-> <<>>, done |-> FALSE]

\* The zero headerBuffer.
NoBuffer == [buf |-> <<>>, err |-> NilErr, writes |-> 0, failAt |-> 0]

NoOptions ==
    [isNil |-> TRUE, opts |-> ZeroOptions,
     err |-> [isNil |-> TRUE, UndefinedVars |-> <<>>, msg |-> <<>>], done |-> FALSE]

Key(info) == IncomingPrefix \o <<"/">> \o info.messageId

LogLine(line) == [rec |-> i, line |-> line]

\* The failure line naming the key of the first record of the batch, as if
\* the key were computed once per batch and kept.
logErr_FirstKey(err) ==
    LogLine(<<"failed to forward message ">> \o Key(records[1]) \o <<": ">> \o err.msg)

logErr(err) ==
    LogLine(<<"failed to forward message ">> \o Key(records[i]) \o <<": ">> \o err.msg)

Init ==
    /\ pc = "idle"
    /\ records = <<>>
    /\ i = 0
    /\ logs = <<>>
    /\ calls = <<>>
    /\ orig = <<>>
    /\ updated = <<>>
    /\ result = NoResult
    /\ msgIn = <<>>
    /\ msgOut = NoOutput
    /\ env = HandlerEnv
    /\ options = NoOptions
    /\ invocations = 0
    /\ buffer = NoBuffer

\* HandleEvent without the check for an empty batch: the loop runs zero
\* times and the stop disposition is returned.
HandleEvent_NoEmptyCheck(e) ==
    /\ pc = "idle"
    /\ records' = e
    /\ IF Len(e) = 0
       THEN /\ result' = [disposition |-> "STOP_RULE_SET", err |-> NilErr]
            /\ pc' = "returned"
            /\ i' = i
       ELSE /\ result' = result
            /\ pc' = "process"
            /\ i' = 1
    /\ invocations' = invocations + 1
    /\ UNCHANGED <<logs, calls, orig, updated, msgIn, msgOut, env, options, buffer>>

\* HandleEvent is entered with event e: the empty batch is refused at once.
HandleEvent(e) ==
    /\ pc = "idle"
    /\ records' = e
    /\ IF Len(e) = 0
       THEN /\ result' = [disposition |-> "nil",
                          err |-> Err(<<"SES event contained no records: ">>)]
            /\ pc' = "returned"
            /\ i' = i
       ELSE /\ result' = result
            /\ pc' = "process"
            /\ i' = 1
    /\ invocations' = invocations + 1
    /\ UNCHANGED <<logs, calls, orig, updated, msgIn, msgOut, env, options, buffer>>

\* A message id seen before is refused instead of being processed again.
ProcessMessage_SkipsDuplicates ==
    /\ pc = "process"
    /\ IF \E j \in 1..(i-1) : records[j].messageId = records[i].messageId
       THEN /\ logs' = Append(Append(logs,
                               LogLine(<<"forwarding message ">> \o Key(records[i]))),
                               logErr(Err(<<"already forwarded">>)))
            /\ pc' = "next"
       ELSE /\ logs' = Append(logs, LogLine(<<"forwarding message ">> \o Key(records[i])))
            /\ pc' = "validate"
    /\ UNCHANGED <<records, i, calls, orig, updated, result, msgIn, msgOut, env, options,
                   invocations, buffer>>

\* processMessage starts on record i: the start line is logged.
ProcessMessage ==
    /\ pc = "process"
    /\ logs' = Append(logs, LogLine(<<"forwarding message ">> \o Key(records[i])))
    /\ pc' = "validate"
    /\ UNCHANGED <<records, i, calls, orig, updated, result, msgIn, msgOut, env, options, invocations, buffer>>

\* A failed validation is logged and the record is fetched all the same.
Validate_LogsAndContinues ==
    /\ pc = "validate"
    /\ \E resp \in BounceResponses :
        LET v == validateMessage(records[i], resp)
        IN  /\ calls' = IF v.called
                        THEN Append(calls, [op |-> "SendBounce", rec |-> i,
                                            input |-> SendBounceInput(records[i]),
                                            resp |-> resp])
                        ELSE calls
            /\ logs' = IF ~v.err.isNil THEN Append(logs, logErr(v.err)) ELSE logs
            /\ pc' = "fetch"
    /\ UNCHANGED <<records, i, orig, updated, result, msgIn, msgOut, env, options, invocations, buffer>>

\* h.validateMessage(ctx, sesInfo)
Validate ==
    /\ pc = "validate"
    /\ \E resp \in BounceResponses :
        LET v == validateMessage(records[i], resp)
        IN  /\ calls' = IF v.called
                        THEN Append(calls, [op |-> "SendBounce", rec |-> i,
                                            input |-> SendBounceInput(records[i]),
                                            resp |-> resp])
                        ELSE calls
            /\ IF ~v.err.isNil
               THEN /\ logs' = Append(logs, logErr(v.err))
                    /\ pc' = "next"
               ELSE /\ logs' = logs
                    /\ pc' = "fetch"
    /\ UNCHANGED <<records, i, orig, updated, result, msgIn, msgOut, env, options, invocations, buffer>>

\* Fetch whose failure ends the whole batch instead of the record.
Fetch_AbortsBatch ==
    /\ pc = "fetch"
    /\ \E resp \in GetResponses :
        LET g == getOriginalMessage(resp)
        IN  /\ calls' = Append(calls, [op |-> "GetObject", rec |-> i,
                                       input |-> [Bucket |-> BucketName,
                                                  Key |-> Key(records[i])],
                                       resp |-> resp])
            /\ IF ~g.err.isNil
               THEN /\ logs' = Append(logs, logErr(g.err))
                    /\ pc' = "returned"
                    /\ result' = [disposition |-> "STOP_RULE_SET", err |-> NilErr]
               ELSE /\ logs' = logs
                    /\ pc' = "update"
                    /\ result' = result
            /\ orig' = g.msg
    /\ UNCHANGED <<records, i, updated, msgIn, msgOut, env, options, invocations, buffer>>

\* h.getOriginalMessage(ctx, key): orig is assigned what it returned, also
\* when it returned an error.
Fetch ==
    /\ pc = "fetch"
    /\ \E resp \in GetResponses :
        LET g == getOriginalMessage(resp)
        IN  /\ calls' = Append(calls, [op |-> "GetObject", rec |-> i,
                                       input |-> [Bucket |-> BucketName,
                                                  Key |-> Key(records[i])],
                                       resp |-> resp])
            /\ IF ~g.err.isNil
               THEN /\ logs' = Append(logs, logErr(g.err))
                    /\ pc' = "next"
               ELSE /\ logs' = logs
                    /\ pc' = "update"
            /\ orig' = g.msg
    /\ UNCHANGED <<records, i, updated, result, msgIn, msgOut, env, options, invocations, buffer>>

\* A failed rewrite is logged and the fetched bytes go on to the send.
Update_ForwardsOnError ==
    /\ pc = "update"
    /\ \E u \in {updateMessage(orig, Key(records[i]))} :
           /\ msgIn' = orig
           /\ msgOut' = [bytes |-> u.bytes, err |-> u.err,
                         written |-> u.written, done |-> TRUE]
           /\ IF ~u.err.isNil
              THEN /\ logs' = Append(logs, logErr(u.err))
                   /\ updated' = orig
              ELSE /\ logs' = logs
                   /\ updated' = u.bytes
    /\ pc' = "forward"
    /\ UNCHANGED <<records, i, calls, orig, result, env, options, invocations, buffer>>

\* h.updateMessage(orig, key)
Update ==
    /\ pc = "update"
    /\ \E u \in {updateMessage(orig, Key(records[i]))} :
           /\ msgIn' = orig
           /\ msgOut' = [bytes |-> u.bytes, err |-> u.err,
                         written |-> u.written, done |-> TRUE]
           /\ IF ~u.err.isNil
              THEN /\ logs' = Append(logs, logErr(u.err))
                   /\ pc' = "next"
                   /\ updated' = updated
              ELSE /\ logs' = logs
                   /\ pc' = "forward"
                   /\ updated' = u.bytes
    /\ UNCHANGED <<records, i, calls, orig, result, env, options, invocations, buffer>>

\* The fetched bytes are sent instead of the rewritten ones.
Forward_SendsOriginal ==
    /\ pc = "forward"
    /\ \E resp \in SendResponses :
        LET f == forwardMessage(resp)
        IN  /\ calls' = Append(calls, [op |-> "SendEmail", rec |-> i,
                                       input |-> SendEmailInput(orig),
                                       resp |-> resp])
            /\ logs' = Append(logs,
                  IF ~f.err.isNil THEN logErr(f.err)
                  ELSE LogLine(<<"successfully forwarded message ">>
                               \o Key(records[i]) \o <<" as ">> \o f.forwardedMessageId))
    /\ pc' = "next"
    /\ UNCHANGED <<records, i, orig, updated, result, msgIn, msgOut, env, options, invocations, buffer>>

\* h.forwardMessage(ctx, updated)
Forward ==
    /\ pc = "forward"
    /\ \E resp \in SendResponses :
        LET f == forwardMessage(resp)
        IN  /\ calls' = Append(calls, [op |-> "SendEmail", rec |-> i,
                                       input |-> SendEmailInput(updated),
                                       resp |-> resp])
            /\ logs' = Append(logs,
                  IF ~f.err.isNil THEN logErr(f.err)
                  ELSE LogLine(<<"successfully forwarded message ">>
                               \o Key(records[i]) \o <<" as ">> \o f.forwardedMessageId))
    /\ pc' = "next"
    /\ UNCHANGED <<records, i, orig, updated, result, msgIn, msgOut, env, options, invocations, buffer>>

\* Only e.Records[0] is processed.
NextIndex_OnlyFirst(n, k) == 0

\* The loop of HandleEvent over e.Records: the index after record i.
NextIndex(n, k) == IF k < n THEN k + 1 ELSE 0

\* A failed record ends HandleEvent with an error.
NextRecord_Escalates ==
    /\ pc = "next"
    /\ LET k == NextIndex(Len(records), i)
           failed == logs[Len(logs)].line[1] = "failed to forward message "
       IN  IF failed
           THEN /\ i' = i
                /\ pc' = "returned"
                /\ result' = [disposition |-> "nil", err |-> Err(logs[Len(logs)].line)]
           ELSE IF k # 0
           THEN /\ i' = k
                /\ pc' = "process"
                /\ result' = result
           ELSE /\ i' = i
                /\ pc' = "returned"
                /\ result' = [disposition |-> "STOP_RULE_SET", err |-> NilErr]
    /\ orig' = <<>>
    /\ updated' = <<>>
    /\ msgIn' = <<>>
    /\ msgOut' = NoOutput
    /\ UNCHANGED <<records, logs, calls, env, options, invocations, buffer>>

\* processMessage returned: the loop goes to the next record, or HandleEvent
\* returns the stop disposition.  orig, updated and the rewrite's input and
\* result die with processMessage.
NextRecord ==
    /\ pc = "next"
    /\ LET k == NextIndex(Len(records), i)
       IN  IF k # 0
           THEN /\ i' = k
                /\ pc' = "process"
                /\ result' = result
           ELSE /\ i' = i
                /\ pc' = "returned"
                /\ result' = [disposition |-> "STOP_RULE_SET", err |-> NilErr]
    /\ orig' = <<>>
    /\ updated' = <<>>
    /\ msgIn' = <<>>
    /\ msgOut' = NoOutput
    /\ UNCHANGED <<records, logs, calls, env, options, invocations, buffer>>

\* Records handled concurrently: the next record may be started while the
\* fetch of the current one is still outstanding.
Steps_StartsNextEarly ==
    \/ ProcessMessage
    \/ Validate
    \/ Fetch
    \/ Update
    \/ Forward
    \/ NextRecord
    \/ /\ pc = "fetch"
       /\ i < Len(records)
       /\ i' = i + 1
       /\ pc' = "process"
       /\ UNCHANGED <<records, logs, calls, orig, updated, result, msgIn, msgOut, env,
                      options, invocations, buffer>>

Steps ==
    \/ ProcessMessage
    \/ Validate
    \/ Fetch
    \/ Update
    \/ Forward
    \/ NextRecord

Next ==
    \/ \E e \in Batches : HandleEvent(e)
    \/ Steps

Spec == Init /\ [][Next]_vars

(***************************************************************************)
(* Several invocations of HandleEvent on the same Handler.  The Handler    *)
(* holds its clients, its Options and its logger and no other state, so a  *)
(* later invocation starts from what the struct holds; records, logs and   *)
(* calls accumulate here over the invocations so that the observations of  *)
(* all of them can be compared.                                            *)
(***************************************************************************)
\* A passing record under each id and one that is dropped as spam.
TwicePool ==
    {Record(id, <<"r1">>, V_PASS, P_none, V_PASS, V_PASS, V_PASS, V_PASS) : id \in MessageIds}
    \cup {Record(<<"deadbeef">>, <<"r1">>, V_EMPTY, <<>>, V_EMPTY, V_EMPTY, V_FAIL, V_EMPTY)}

TwiceBatches == UNION {[1..n -> TwicePool] : n \in 0..MaxRecords}

\* HandleEvent is entered again, with event e, after it has returned.
HandleNextEvent(e) ==
    /\ pc = "returned"
    /\ invocations < MaxInvocations
    /\ Len(e) >= 1
    /\ Len(records) + Len(e) <= MaxRecords
    /\ records' = records \o e
    /\ i' = Len(records) + 1
    /\ pc' = "process"
    /\ result' = NoResult
    /\ invocations' = invocations + 1
    /\ UNCHANGED <<logs, calls, orig, updated, msgIn, msgOut, env, options, buffer>>

NextTwice ==
    \/ \E e \in TwiceBatches : HandleEvent(e)
    \/ \E e \in TwiceBatches : HandleNextEvent(e)
    \/ Steps

SpecTwice == Init /\ [][NextTwice]_vars

\* One record, every combination of verdicts.
NextWide ==
    \/ \E e \in WideBatches : HandleEvent(e)
    \/ Steps

SpecWide == Init /\ [][NextWide]_vars

(***************************************************************************)
(* updateMessage on its own, over every message of RewriteMessages.        *)
(***************************************************************************)
RewriteKey == IncomingPrefix \o <<"/">> \o <<"deadbeef">>

InitRewrite ==
    /\ pc = "rewrite"
    /\ records = <<>>
    /\ i = 0
    /\ logs = <<>>
    /\ calls = <<>>
    /\ orig = <<>>
    /\ updated = <<>>
    /\ result = NoResult
    /\ msgIn \in RewriteMessages
    /\ msgOut = NoOutput
    /\ env = HandlerEnv
    /\ options = NoOptions
    /\ invocations = 0
    /\ buffer = NoBuffer

Rewrite ==
    /\ pc = "rewrite"
    /\ \E u \in {updateMessage(msgIn, RewriteKey)} :
           msgOut' = [bytes |-> u.bytes, err |-> u.err,
                      written |-> u.written, done |-> TRUE]
    /\ pc' = "rewritten"
    /\ UNCHANGED <<records, i, logs, calls, orig, updated, result, msgIn, env, options, invocations, buffer>>

NextRewrite == Rewrite

SpecRewrite == InitRewrite /\ [][NextRewrite]_vars

(***************************************************************************)
(* WriteUpdatedHeaders on its own, on a headerBuffer whose writer fails at *)
(* one of its Write calls or never.                                        *)
(***************************************************************************)
BufferHeaderPool ==
    {L_FromNamed, L_FromMalformed, L_ReplyTo, L_To1, L_To2, L_MIMEVersion, L_Received}

BufferMessages ==
    {BuildMessage(hs, MsgBody) :
        hs \in {l \in HeaderLists : \A k \in 1..Len(l) : l[k] \in BufferHeaderPool}}

\* The Write call at which the writer fails: 0 for never, up to one more
\* than WriteUpdatedHeaders can make for MaxHeaders header lines.
FailingWrites == 0..(MaxHeaders + 4)

InitBuffer ==
    /\ pc = "write"
    /\ records = <<>>
    /\ i = 0
    /\ logs = <<>>
    /\ calls = <<>>
    /\ orig = <<>>
    /\ updated = <<>>
    /\ result = NoResult
    /\ msgIn \in BufferMessages
    /\ msgOut = NoOutput
    /\ env = HandlerEnv
    /\ options = NoOptions
    /\ invocations = 0
    /\ buffer \in {NewHeaderBuffer(f) : f \in FailingWrites}

\* hb.WriteUpdatedHeaders(input) for the headers of msgIn.
WriteHeaders ==
    /\ pc = "write"
    /\ \E w \in {WriteUpdatedHeaders(buffer,
                      [headers |-> ReadMessage(msgIn).Header,
                       senderAddress |-> SenderAddress,
                       msgPath |-> BucketName \o <<"/">> \o RewriteKey])} :
           /\ buffer' = w.hb
           /\ msgOut' = [bytes |-> <<>>, err |-> w.err,
                         written |-> w.hb.buf, done |-> TRUE]
    /\ pc' = "written"
    /\ UNCHANGED <<records, i, logs, calls, orig, updated, result, msgIn, env, options,
                   invocations>>

NextBuffer == WriteHeaders

SpecBuffer == InitBuffer /\ [][NextBuffer]_vars

(***************************************************************************)
(* GetOptions on its own, over every environment of Environments.         *)
(***************************************************************************)
InitOptions ==
    /\ pc = "getopts"
    /\ records = <<>>
    /\ i = 0
    /\ logs = <<>>
    /\ calls = <<>>
    /\ orig = <<>>
    /\ updated = <<>>
    /\ result = NoResult
    /\ msgIn = <<>>
    /\ msgOut = NoOutput
    /\ env \in Environments
    /\ options = NoOptions
    /\ invocations = 0
    /\ buffer = NoBuffer

LoadOptions ==
    /\ pc = "getopts"
    /\ \E o \in {GetOptions(env)} :
           options' = [isNil |-> o.isNil, opts |-> o.opts, err |-> o.err, done |-> TRUE]
    /\ pc' = "gotopts"
    /\ UNCHANGED <<records, i, logs, calls, orig, updated, result, msgIn, msgOut, env, invocations, buffer>>

NextOptions == LoadOptions

SpecOptions == InitOptions /\ [][NextOptions]_vars

(***************************************************************************)
(* Vocabulary of the properties.                                           *)
(***************************************************************************)
\* Equality of two texts up to letter case.
EqualFold(a, b) ==
    /\ Len(a) = Len(b)
    /\ \A k \in 1..Len(a) : ToLowerChar(a[k]) = ToLowerChar(b[k])

DmarcBounceCondition(info) ==
    /\ EqualFold(info.dmarcVerdict, V_FAIL)
    /\ EqualFold(info.dmarcPolicy, P_REJECT)

AnyVerdictFails(info) ==
    \E v \in {info.spfVerdict, info.dkimVerdict, info.spamVerdict, info.virusVerdict} :
        EqualFold(v, V_FAIL)

KeyOf(k) == <<"incoming", "/">> \o records[k].messageId

StartLine(k) == <<"forwarding message ">> \o KeyOf(k)

FailLine(k, reason) == <<"failed to forward message ">> \o KeyOf(k) \o <<": ">> \o reason

SuccessLine(k, id) == <<"successfully forwarded message ">> \o KeyOf(k) \o <<" as ">> \o id

IsStart(l) == l.line # <<>> /\ l.line[1] = "forwarding message "

IsFailure(l) == l.line # <<>> /\ l.line[1] = "failed to forward message "

IsSuccess(l) == l.line # <<>> /\ l.line[1] = "successfully forwarded message "

IsTerminal(l) == IsFailure(l) \/ IsSuccess(l)

LinesOf(k) == SelectSeq(logs, LAMBDA l : l.rec = k)

TerminalsOf(k) == SelectSeq(logs, LAMBDA l : l.rec = k /\ IsTerminal(l))

CallsOf(k, op) == SelectSeq(calls, LAMBDA c : c.rec = k /\ c.op = op)

\* processMessage has returned for record k.
Finished(k) ==
    \/ pc = "returned"
    \/ (pc \in {"process", "validate", "fetch", "update", "forward", "next"} /\ i > k)
    \/ (pc = "next" /\ i = k)

Returned == pc = "returned"

StopRuleSet == [disposition |-> "STOP_RULE_SET", err |-> NilErr]

(***************************************************************************)
(* C1: for a batch of at least one record HandleEvent returns the stop     *)
(* disposition and a nil error, whatever the outcome of each record;       *)
(* no record's failure ever becomes an error of HandleEvent.               *)
(***************************************************************************)
C1_NoRecordErrorEscalates ==
    Len(records) >= 1 =>
        /\ result.err.isNil
        /\ Returned => result = StopRuleSet

\* Both records of a batch failed (a bounce failure and a send failure)
\* and HandleEvent has returned.
C1_Witness ==
    /\ Returned
    /\ Len(records) = 2
    /\ \A k \in 1..2 : TerminalsOf(k) # <<>> /\ IsFailure(TerminalsOf(k)[1])
    /\ \E c \in 1..Len(calls) : calls[c].op = "SendBounce" /\ ~calls[c].resp.err.isNil
    /\ \E c \in 1..Len(calls) : calls[c].op = "SendEmail" /\ ~calls[c].resp.err.isNil

(***************************************************************************)
(* C2: for a batch of zero records HandleEvent returns a nil disposition   *)
(* and the error 'SES event contained no records', having made no          *)
(* SendBounce, GetObject or send call and written no log line.             *)
(***************************************************************************)
C2_EmptyBatchIsRefused ==
    (Returned /\ Len(records) = 0) =>
        /\ result.disposition = "nil"
        /\ ~result.err.isNil
        /\ result.err.msg = <<"SES event contained no records: ">>
        /\ calls = <<>>
        /\ logs = <<>>

C2_Witness == Returned /\ Len(records) = 0 /\ ~result.err.isNil

(***************************************************************************)
(* C3: for a batch of N >= 1 records, when HandleEvent returns every       *)
(* record i has its own start line 'forwarding message <prefix>/<id_i>'    *)
(* and, after it, its own terminal line (success or failure).              *)
(***************************************************************************)
C3_EveryRecordIsProcessed ==
    (Returned /\ Len(records) >= 1) =>
        \A k \in 1..Len(records) :
            LET ls == LinesOf(k)
            IN  /\ Len(ls) = 2
                /\ ls[1].line = StartLine(k)
                /\ IsTerminal(ls[2])
                /\ SubSeq(ls[2].line, 2, 1 + Len(KeyOf(k))) = KeyOf(k)

\* A batch of two records with different ids has returned.
C3_Witness ==
    /\ Returned
    /\ Len(records) = 2
    /\ records[1].messageId # records[2].messageId
    /\ Len(LinesOf(2)) = 2

(***************************************************************************)
(* C4: for every record whose DMARC verdict is FAIL and whose DMARC policy *)
(* is REJECT (in any letter case), exactly one SendBounce is issued and    *)
(* no GetObject and no send call is made for it, whatever SendBounce       *)
(* returns and whatever the other verdicts are.                            *)
(***************************************************************************)
C4_BouncedRecordIsNeverForwarded ==
    \A k \in 1..Len(records) :
        DmarcBounceCondition(records[k]) =>
            /\ Len(CallsOf(k, "SendBounce")) <= 1
            /\ Finished(k) => Len(CallsOf(k, "SendBounce")) = 1
            /\ CallsOf(k, "GetObject") = <<>>
            /\ CallsOf(k, "SendEmail") = <<>>

(***************************************************************************)
(* C5: for every record where the DMARC bounce condition does not hold and *)
(* one of the SPF, DKIM, Spam, Virus verdicts is FAIL in any letter case,  *)
(* no SendBounce, GetObject or send call is made, and its terminal line is *)
(* 'failed to forward message <key>: marked as spam, ignoring'.            *)
(***************************************************************************)
C5_SpamIsDroppedSilently ==
    \A k \in 1..Len(records) :
        (~DmarcBounceCondition(records[k]) /\ AnyVerdictFails(records[k])) =>
            /\ \A c \in 1..Len(calls) : calls[c].rec # k
            /\ Finished(k) =>
                /\ Len(TerminalsOf(k)) = 1
                /\ TerminalsOf(k)[1].line = FailLine(k, <<"marked as spam, ignoring">>)

\* A record marked as spam only by a mixed-case 'Fail' verdict was dropped.
C5_Witness ==
    /\ Returned
    /\ Len(records) = 1
    /\ ~DmarcBounceCondition(records[1])
    /\ records[1].virusVerdict = V_Fail
    /\ records[1].spfVerdict = V_PASS
    /\ records[1].dkimVerdict = V_GRAY
    /\ records[1].spamVerdict = V_PASS
    /\ EqualFold(records[1].dmarcVerdict, V_FAIL)
    /\ TerminalsOf(1) # <<>>

(***************************************************************************)
(* C6: when the DMARC bounce condition holds and SendBounce returns an     *)
(* error, the record ends with the reason 'DMARC bounce failed: <cause>',  *)
(* no fetch and no send is made for it, the remaining records are still    *)
(* processed and HandleEvent returns the stop disposition.                 *)
(***************************************************************************)
C6_BounceFailureEndsOnlyTheRecord ==
    \A k \in 1..Len(records) :
        LET b == CallsOf(k, "SendBounce")
        IN  (DmarcBounceCondition(records[k]) /\ b # <<>> /\ ~b[1].resp.err.isNil) =>
                /\ CallsOf(k, "GetObject") = <<>>
                /\ CallsOf(k, "SendEmail") = <<>>
                /\ Finished(k) =>
                    /\ Len(TerminalsOf(k)) = 1
                    /\ TerminalsOf(k)[1].line =
                          FailLine(k, <<"DMARC bounce failed: ">> \o b[1].resp.err.msg)
                /\ Returned =>
                    /\ result = StopRuleSet
                    /\ \A j \in (k+1)..Len(records) :
                          /\ LinesOf(j) # <<>>
                          /\ LinesOf(j)[1].line = StartLine(j)
                          /\ Len(TerminalsOf(j)) = 1

\* The bounce of the first record failed and the second was forwarded.
C6_Witness ==
    /\ Returned
    /\ Len(records) = 2
    /\ DmarcBounceCondition(records[1])
    /\ CallsOf(1, "SendBounce") # <<>>
    /\ ~CallsOf(1, "SendBounce")[1].resp.err.isNil
    /\ TerminalsOf(2) # <<>>
    /\ IsSuccess(TerminalsOf(2)[1])

(***************************************************************************)
(* C7: in a batch of N >= 2 records that all pass validation, where the    *)
(* fetch fails for exactly one record and every other stage succeeds,      *)
(* HandleEvent produces exactly N terminal lines: N-1 success lines, each  *)
(* with the identifier the transmitter returned for that record, and one   *)
(* failure line 'failed to get original message: <cause>'; the failed      *)
(* record may be at any position and the stop disposition is returned.     *)
(***************************************************************************)
PassesValidation(info) == ~DmarcBounceCondition(info) /\ ~AnyVerdictFails(info)

FetchFailed(k) ==
    LET g == CallsOf(k, "GetObject")
    IN  g # <<>> /\ (~g[1].resp.err.isNil \/ ~g[1].resp.readErr.isNil)

FetchCause(k) ==
    LET r == CallsOf(k, "GetObject")[1].resp
    IN  IF ~r.err.isNil THEN r.err.msg ELSE r.readErr.msg

\* Every call made for record k succeeded: the store returned a message
\* that can be rewritten and the transmitter returned an identifier.
OtherStagesSucceeded(k) ==
    /\ \A c \in 1..Len(calls) :
        (calls[c].rec = k /\ calls[c].op = "GetObject") =>
            /\ calls[c].resp.err.isNil /\ calls[c].resp.readErr.isNil
            /\ calls[c].resp.body = GoodMessage
    /\ \A c \in 1..Len(calls) :
        (calls[c].rec = k /\ calls[c].op = "SendEmail") => calls[c].resp.err.isNil

C7_Precondition(bad) ==
    /\ Returned
    /\ Len(records) >= 2
    /\ \A k \in 1..Len(records) : PassesValidation(records[k])
    /\ FetchFailed(bad)
    /\ \A k \in 1..Len(records) : k # bad => OtherStagesSucceeded(k)

C7_OneFetchFailureAmongSuccesses ==
    \A bad \in 1..Len(records) :
        C7_Precondition(bad) =>
            /\ result = StopRuleSet
            /\ Len(SelectSeq(logs, IsTerminal)) = Len(records)
            /\ \A k \in 1..Len(records) :
                /\ Len(TerminalsOf(k)) = 1
                /\ TerminalsOf(k)[1].line =
                      IF k = bad
                      THEN FailLine(k, <<"failed to get original message: ">> \o FetchCause(k))
                      ELSE SuccessLine(k, CallsOf(k, "SendEmail")[1].resp.id)

\* The fetch of the first record failed; the second one was forwarded.
C7_Witness == C7_Precondition(1) /\ Len(SelectSeq(logs, IsSuccess)) = Len(records) - 1

\* The fetch of the last record failed; the ones before were forwarded
\* with different identifiers when there are several.
C7_WitnessLast == C7_Precondition(Len(records))

(***************************************************************************)
(* Vocabulary of the properties of the Header Rewriter.                    *)
(***************************************************************************)
\* The header lines of a message, as name/value pairs, up to the blank line.
RECURSIVE HeaderLinesOf(_)
HeaderLinesOf(b) ==
    LET k == IndexOf(b, CRLF)
        c == IndexOf(b, ":")
    IN  IF k <= 1 \/ c = 0 \/ c > k THEN <<>>
        ELSE <<[name |-> SubSeq(b, 1, c-1), value |-> SubSeq(b, c+2, k-1)]>>
             \o HeaderLinesOf(SubSeq(b, k+1, Len(b)))

\* What follows the blank line that ends the header block.
RECURSIVE BodyOf(_)
BodyOf(b) ==
    LET k == IndexOf(b, CRLF)
    IN  IF k = 0 THEN <<>>
        ELSE IF k = 1 THEN Tail(b)
        ELSE BodyOf(SubSeq(b, k+1, Len(b)))

OrigHeaders == HeaderLinesOf(msgIn)

OutHeaders == HeaderLinesOf(msgOut.bytes)

\* The values of the lines called name (in any letter case), in order.
ValuesNamed(lines, name) ==
    LET sel == SelectSeq(lines, LAMBDA l : EqualFold(l.name, name))
    IN  [k \in 1..Len(sel) |-> sel[k].value]

\* The first of the values, the empty text when there is none.
FirstOf(values) == IF values = <<>> THEN <<>> ELSE values[1]

FirstValue(lines, name) == FirstOf(ValuesNamed(lines, name))

OrigFrom == FirstValue(OrigHeaders, H_From)

\* msgIn is a header block, a blank line and a body.
WellFormedInput == msgIn = BuildMessage(OrigHeaders, BodyOf(msgIn))

RewriteSucceeded == msgOut.done /\ msgOut.err.isNil

\* a with its first "@" replaced by " at ", stated by position.
FirstAtReplaced(a) ==
    IF \A k \in 1..Len(a) : a[k] # "@" THEN a
    ELSE LET k == CHOOSE k \in 1..Len(a) :
                    a[k] = "@" /\ \A j \in 1..(k-1) : a[j] # "@"
         IN  [j \in 1..(Len(a) + 3) |->
                IF j < k THEN a[j]
                ELSE IF j = k THEN " "
                ELSE IF j = k + 1 THEN "a"
                ELSE IF j = k + 2 THEN "t"
                ELSE IF j = k + 3 THEN " "
                ELSE a[j - 3]]

C9_ReplyToAsStated ==
    RewriteSucceeded =>
        /\ OutHeaders[2].name = H_ReplyTo
        /\ OutHeaders[2].value =
              IF ValuesNamed(OrigHeaders, H_ReplyTo) = <<>> THEN OrigFrom
              ELSE FirstValue(OrigHeaders, H_ReplyTo)

(***************************************************************************)
(* C9 amended: in every successful rewrite the emitted Reply-To value is   *)
(* the first original From value when the original message had no          *)
(* Reply-To header or its first Reply-To value is empty, and the first     *)
(* original Reply-To value verbatim otherwise.                             *)
(***************************************************************************)
C9_ReplyToValue ==
    RewriteSucceeded =>
        /\ OutHeaders[2].name = H_ReplyTo
        /\ OutHeaders[2].value =
              IF FirstValue(OrigHeaders, H_ReplyTo) = <<>> THEN OrigFrom
              ELSE FirstValue(OrigHeaders, H_ReplyTo)

\* The original carries a Reply-To header with an empty value.
C9_Witness ==
    /\ RewriteSucceeded
    /\ ValuesNamed(OrigHeaders, H_ReplyTo) # <<>>
    /\ FirstValue(OrigHeaders, H_ReplyTo) = <<>>
    /\ OutHeaders[2].value = OrigFrom

\* The permutations of the positions 1..n.
PositionOrders(n) ==
    {p \in [1..n -> 1..n] : \A a, b \in 1..n : a # b => p[a] # p[b]}

\* The message of header lines h and the body, the lines taken in the order p.
Reordered(h, body, p) ==
    BuildMessage([k \in 1..Len(h) |-> h[p[k]]], body)

\* The result u is what updateMessage gave for msgIn.
IsOutput(u) == u.bytes = msgOut.bytes /\ u.err = msgOut.err

\* updateMessage gives for the reordered message what it gave for msgIn.
SameOutput(h, body, p) ==
    IsOutput(updateMessage(Reordered(h, body, p), RewriteKey))

\* p keeps the lines of h that share a name in their relative order.
KeepsOrderWithinName(h, p) ==
    \A a, b \in 1..Len(h) :
        (a < b /\ EqualFold(h[p[a]].name, h[p[b]].name)) => p[a] < p[b]

\* Every order of the header lines h gives the output of msgIn.
AnyOrderSameOutput(h, body) ==
    \A p \in PositionOrders(Len(h)) : SameOutput(h, body, p)

\* Every order of h that keeps same-name lines in order gives that output.
OrderWithinNamesSameOutput(h, body) ==
    \A p \in PositionOrders(Len(h)) :
        KeepsOrderWithinName(h, p) => SameOutput(h, body, p)

EmittedKeptNames ==
    <<H_To, H_Cc, H_Bcc, H_Subject, H_MIMEVersion, H_ContentType>>

\* The place of an emitted name among the kept names, 0 for any other name.
Rank(name) ==
    IF \E k \in 1..Len(EmittedKeptNames) : EmittedKeptNames[k] = name
    THEN CHOOSE k \in 1..Len(EmittedKeptNames) : EmittedKeptNames[k] = name
    ELSE 0

\* The place a name of the input takes among the kept names, 0 for others.
FoldedRank(name) ==
    IF \E k \in 1..Len(EmittedKeptNames) : EqualFold(EmittedKeptNames[k], name)
    THEN CHOOSE k \in 1..Len(EmittedKeptNames) : EqualFold(EmittedKeptNames[k], name)
    ELSE 0

ProvenanceName ==
    <<"X","-","S","E","S","-","F","o","r","w","a","r","d","e","r","-",
      "O","r","i","g","i","n","a","l">>

\* From, Reply-To, the kept headers present in the input in their fixed
\* order, and the provenance header last.
FixedEmissionOrder ==
    LET n == Len(OutHeaders)
    IN  /\ n >= 3
        /\ OutHeaders[1].name = H_From
        /\ OutHeaders[2].name = H_ReplyTo
        /\ OutHeaders[n].name = ProvenanceName
        /\ \A k \in 3..(n-1) :
              /\ Rank(OutHeaders[k].name) > 0
              /\ ValuesNamed(OrigHeaders, OutHeaders[k].name) # <<>>
              /\ \A j \in 3..(k-1) :
                    Rank(OutHeaders[j].name) <= Rank(OutHeaders[k].name)

(***************************************************************************)
(* C10 as stated: for any two input messages that contain the same headers *)
(* with the same values in different header orders updateMessage produces  *)
(* the same output, the header lines being emitted in the order From,      *)
(* Reply-To, To, Cc, Bcc, Subject, MIME-Version, Content-Type, provenance  *)
(* header, each of To..Content-Type only if present.                       *)
(***************************************************************************)
C10_AnyHeaderOrderAsStated ==
    (msgOut.done /\ WellFormedInput) =>
        /\ AnyOrderSameOutput(OrigHeaders, BodyOf(msgIn))
        /\ msgOut.err.isNil => FixedEmissionOrder

(***************************************************************************)
(* C10 amended: for any two input messages that contain the same headers   *)
(* with the same values in different header orders, the headers that share *)
(* a name being in the same relative order in both, updateMessage produces *)
(* the same output; the header lines are always emitted in the order From, *)
(* Reply-To, To, Cc, Bcc, Subject, MIME-Version, Content-Type, provenance  *)
(* header, each of To..Content-Type only if present.                       *)
(***************************************************************************)
C10_HeaderOrderWithinNames ==
    (msgOut.done /\ WellFormedInput) =>
        /\ OrderWithinNamesSameOutput(OrigHeaders, BodyOf(msgIn))
        /\ msgOut.err.isNil => FixedEmissionOrder

\* Two kept headers arrive in the opposite of their emission order and are
\* both emitted.
C10_Witness ==
    /\ RewriteSucceeded
    /\ WellFormedInput
    /\ \E a, b \in 1..Len(OrigHeaders) :
          /\ a < b
          /\ FoldedRank(OrigHeaders[b].name) > 0
          /\ FoldedRank(OrigHeaders[a].name) > FoldedRank(OrigHeaders[b].name)
    /\ Len(OutHeaders) >= 5
    /\ FixedEmissionOrder

(***************************************************************************)
(* C11: in every successful rewrite the bytes that follow the blank line   *)
(* ending the emitted header block are exactly the body bytes of the       *)
(* original message: nothing is added, removed or changed.                 *)
(***************************************************************************)
C11_BodyIsUnchanged ==
    (RewriteSucceeded /\ WellFormedInput) =>
        /\ OutHeaders # <<>>
        /\ msgOut.bytes = BuildMessage(OutHeaders, BodyOf(msgIn))

\* The body rewritten holds a blank line and a header-like line of its own.
C11_Witness ==
    /\ RewriteSucceeded
    /\ WellFormedInput
    /\ BodyOf(msgIn) = MsgBodyWithHeaderLine
    /\ BodyOf(msgOut.bytes) = MsgBodyWithHeaderLine

\* The text hay holds the text needle.
Contains(hay, needle) ==
    \E o \in 0..(Len(hay) - Len(needle)) :
        SubSeq(hay, o + 1, o + Len(needle)) = needle

\* b is the header lines h, a blank line and a body, and its first From value
\* parses as a single address (parses = TRUE) or does not (parses = FALSE).
IsMessageOf(b, h, parses) ==
    /\ b = BuildMessage(h, BodyOf(b))
    /\ ParseAddress(FirstValue(h, H_From)).err.isNil = parses

\* The stored messages whose first From value is, or is not, a single
\* address, worked out once.
StoredWithUnparseableFrom ==
    {b \in StoredMessages : IsMessageOf(b, HeaderLinesOf(b), FALSE)}

StoredRewritable == {b \in StoredMessages : IsMessageOf(b, HeaderLinesOf(b), TRUE)}

\* What updateMessage returns for each stored message under each key,
\* worked out once.
StoredRewrites ==
    {[body |-> b, key |-> IncomingPrefix \o <<"/">> \o m,
      out |-> updateMessage(b, IncomingPrefix \o <<"/">> \o m)] :
        b \in StoredMessages, m \in MessageIds}

StoredKeys == {IncomingPrefix \o <<"/">> \o m : m \in MessageIds}

\* updateMessage(b, key), read from StoredRewrites where it is listed.
Rewritten(b, key) ==
    IF b \in StoredMessages /\ key \in StoredKeys
    THEN (CHOOSE r \in StoredRewrites : r.body = b /\ r.key = key).out
    ELSE updateMessage(b, key)

\* b is a header block, a blank line and a body, and its first From value
\* (the empty text when it has no From header) is not a single address.
HasUnparseableFrom(b) ==
    IF b \in StoredMessages THEN b \in StoredWithUnparseableFrom
    ELSE IsMessageOf(b, HeaderLinesOf(b), FALSE)

\* The fetch made for record k returned the bytes of a message.
FetchedBytes(k) ==
    /\ CallsOf(k, "GetObject") # <<>>
    /\ CallsOf(k, "GetObject")[1].resp.err.isNil
    /\ CallsOf(k, "GetObject")[1].resp.readErr.isNil

(***************************************************************************)
(* C12: when the original From value cannot be parsed as a single address  *)
(* the whole rewrite fails: updateMessage returns no bytes and an error    *)
(* whose text contains 'couldn't parse From address <offending value>',    *)
(* no byte is written to the output writer, and no send is attempted for   *)
(* the record.                                                             *)
(***************************************************************************)
C12_UnparseableFromFailsTheRewrite ==
    /\ (msgOut.done /\ HasUnparseableFrom(msgIn)) =>
          /\ msgOut.bytes = <<>>
          /\ msgOut.written = <<>>
          /\ ~msgOut.err.isNil
          /\ Contains(msgOut.err.msg,
                      <<"couldn't parse From address ">> \o OrigFrom)
    /\ \A k \in 1..Len(records) :
          (FetchedBytes(k) /\ HasUnparseableFrom(CallsOf(k, "GetObject")[1].resp.body)) =>
              /\ CallsOf(k, "SendEmail") = <<>>
              /\ Finished(k) =>
                    /\ Len(TerminalsOf(k)) = 1
                    /\ IsFailure(TerminalsOf(k)[1])
                    /\ Contains(TerminalsOf(k)[1].line,
                                <<"couldn't parse From address ">>)

\* A record whose message has the From value 'M B m@a' was processed to
\* its end, kept headers and all left unwritten.
C12_Witness ==
    /\ msgOut.done
    /\ msgIn = BadFromMessage
    /\ OrigFrom = F_Malformed
    /\ ValuesNamed(OrigHeaders, H_To) # <<>>
    /\ pc = "next"
    /\ Len(TerminalsOf(i)) = 1

\* The names a rewritten message may carry.
AllowedNames ==
    {H_From, H_ReplyTo, H_To, H_Cc, H_Bcc, H_Subject, H_MIMEVersion, H_ContentType,
     ProvenanceName}

\* name is, in some letter case, one of the allowed names.
IsAllowedName(name) == \E a \in AllowedNames : EqualFold(a, name)

\* The lines of the original message that carry a kept name.
OrigKeptLines == SelectSeq(OrigHeaders, LAMBDA l : FoldedRank(l.name) > 0)

(***************************************************************************)
(* C13: every header name in the output of a successful rewrite is one of  *)
(* From, Reply-To, To, Cc, Bcc, Subject, MIME-Version, Content-Type or     *)
(* X-SES-Forwarder-Original; every other original header is dropped,       *)
(* whatever its value.                                                     *)
(***************************************************************************)
C13_OnlyAllowedHeaders ==
    (RewriteSucceeded /\ WellFormedInput) =>
        /\ \A k \in 1..Len(OutHeaders) : OutHeaders[k].name \in AllowedNames
        /\ \A j \in 1..Len(OrigHeaders) :
              ~IsAllowedName(OrigHeaders[j].name) =>
                  \A k \in 1..Len(OutHeaders) :
                      ~EqualFold(OutHeaders[k].name, OrigHeaders[j].name)
        /\ Len(OutHeaders) = 3 + Len(OrigKeptLines)

\* Return-Path, X-SES-Spam-Verdict and Message-ID arrive with From and To.
C13_Witness ==
    /\ RewriteSucceeded
    /\ OrigHeaders = <<L_ReturnPath, L_SpamVerdict, L_FromNamed, L_MessageID, L_To1>>
    /\ Len(OutHeaders) = 4

\* The sends made so far, as positions in calls.
SendCalls == {c \in 1..Len(calls) : calls[c].op = "SendEmail"}

\* What updateMessage returns for the bytes fetched for record k.
RewrittenFetch(k) ==
    Rewritten(CallsOf(k, "GetObject")[1].resp.body, KeyOf(k))

\* updateMessage returned u: no error, and the bytes data.
IsRewriteResult(u, data) == u.err.isNil /\ u.bytes = data /\ data # <<>>

(***************************************************************************)
(* C14: every send made by forwardMessage is addressed to exactly one      *)
(* destination, the configured forwarding address, whatever the record's   *)
(* recipients are; it carries the configured configuration-set name, and   *)
(* its raw data is exactly the byte sequence updateMessage returned for    *)
(* the bytes fetched for that same record.                                 *)
(***************************************************************************)
C14_SendInput ==
    \A c \in SendCalls :
        /\ calls[c].input.ToAddresses = <<ForwardingAddress>>
        /\ calls[c].input.ConfigurationSetName = ConfigurationSet
        /\ FetchedBytes(calls[c].rec)
        /\ IsRewriteResult(RewrittenFetch(calls[c].rec), calls[c].input.Data)
        /\ (pc = "next" /\ i = calls[c].rec) => calls[c].input.Data = msgOut.bytes

\* Two records with different ids and recipients were both sent, each with
\* its own rewritten bytes.
C14_Witness ==
    /\ Returned
    /\ Len(records) = 2
    /\ records[1].messageId # records[2].messageId
    /\ records[1].recipients # records[2].recipients
    /\ \E c, d \in SendCalls :
          /\ calls[c].rec = 1
          /\ calls[d].rec = 2
          /\ calls[c].input.Data # calls[d].input.Data

\* The failed fetch of record k ended the record: its terminal line carries
\* the reason, and neither the rewrite nor the send was performed.
FetchFailureEndsRecord(k) ==
    /\ CallsOf(k, "SendEmail") = <<>>
    /\ i = k => ~msgOut.done
    /\ Finished(k) =>
          /\ Len(TerminalsOf(k)) = 1
          /\ TerminalsOf(k)[1].line =
                FailLine(k, <<"failed to get original message: ">> \o FetchCause(k))

(***************************************************************************)
(* C15: when GetObject returns an error, or reading the returned body      *)
(* fails, getOriginalMessage returns an empty message and an error         *)
(* 'failed to get original message: <cause>'; the record's terminal        *)
(* observation carries that reason and neither the rewrite nor the send    *)
(* is performed for the record.                                            *)
(***************************************************************************)
C15_FetchFailureReturnsNoMessage ==
    \A k \in 1..Len(records) :
        FetchFailed(k) =>
            /\ FetchFailureEndsRecord(k)
            /\ (pc = "next" /\ i = k) => orig = <<>>

\* What holds of C15 in every case: the error, the terminal line and the
\* stages skipped; the message returned is empty when GetObject failed and
\* is what was read before the failure when reading the body failed.
C15_FetchFailureEndsTheRecord ==
    \A k \in 1..Len(records) :
        FetchFailed(k) =>
            /\ FetchFailureEndsRecord(k)
            /\ (pc = "next" /\ i = k) =>
                  orig = IF ~CallsOf(k, "GetObject")[1].resp.err.isNil
                         THEN <<>>
                         ELSE CallsOf(k, "GetObject")[1].resp.body

\* validateMessage returned nil for record k: no bounce failed, no bounce
\* identifier came back and no verdict marks the message as spam.
ValidationOk(k) ==
    /\ \A c \in 1..Len(calls) :
          (calls[c].rec = k /\ calls[c].op = "SendBounce") =>
              calls[c].resp.err.isNil /\ calls[c].resp.id = <<>>
    /\ ~AnyVerdictFails(records[k])

\* b is a header block, a blank line and a body, and its first From value
\* is a single address.
IsRewritable(b) ==
    IF b \in StoredMessages THEN b \in StoredRewritable
    ELSE IsMessageOf(b, HeaderLinesOf(b), TRUE)

\* The bytes fetched for record k are a message whose From value parses.
RewriteOk(k) ==
    /\ FetchedBytes(k)
    /\ IsRewritable(CallsOf(k, "GetObject")[1].resp.body)

SendOk(k) ==
    /\ CallsOf(k, "SendEmail") # <<>>
    /\ CallsOf(k, "SendEmail")[1].resp.err.isNil

AllStagesSucceeded(k) ==
    ValidationOk(k) /\ FetchedBytes(k) /\ RewriteOk(k) /\ SendOk(k)

(***************************************************************************)
(* C16: for every processed record processMessage writes exactly two lines *)
(* naming the key <incomingPrefix>/<messageId>: first 'forwarding message  *)
(* <key>', then exactly one terminal line, which is 'successfully          *)
(* forwarded message <key> as <id>' if and only if validation, fetch,      *)
(* rewrite and send all succeeded (<id> being the identifier the           *)
(* transmitter returned), and 'failed to forward message <key>: <reason>'  *)
(* otherwise.                                                              *)
(***************************************************************************)
C16_TwoLinesPerRecord ==
    \A k \in 1..Len(records) :
        /\ Len(LinesOf(k)) <= 2
        /\ Len(TerminalsOf(k)) <= 1
        /\ Finished(k) =>
              /\ Len(LinesOf(k)) = 2
              /\ LinesOf(k)[1].line = StartLine(k)
              /\ IsTerminal(LinesOf(k)[2])
              /\ IsSuccess(LinesOf(k)[2]) <=> AllStagesSucceeded(k)
              /\ IsSuccess(LinesOf(k)[2]) =>
                    LinesOf(k)[2].line =
                        SuccessLine(k, CallsOf(k, "SendEmail")[1].resp.id)
              /\ IsFailure(LinesOf(k)[2]) =>
                    /\ Len(LinesOf(k)[2].line) > 2 + Len(KeyOf(k))
                    /\ SubSeq(LinesOf(k)[2].line, 1, 2 + Len(KeyOf(k))) = FailLine(k, <<>>)

\* A batch whose first record was forwarded and whose second one failed.
C16_Witness ==
    /\ Returned
    /\ Len(records) = 2
    /\ AllStagesSucceeded(1)
    /\ IsSuccess(LinesOf(1)[2])
    /\ ~AllStagesSucceeded(2)
    /\ IsFailure(LinesOf(2)[2])

(***************************************************************************)
(* Vocabulary of the properties of GetOptions.                             *)
(***************************************************************************)
\* The settings GetOptions reads, in the order it declares them, each with
\* the field of Options it fills.
DeclaredSettings ==
    <<<<"BUCKET_NAME", "BucketName">>, <<"INCOMING_PREFIX", "IncomingPrefix">>,
      <<"SENDER_ADDRESS", "SenderAddress">>,
      <<"FORWARDING_ADDRESS", "ForwardingAddress">>,
      <<"CONFIGURATION_SET", "ConfigurationSet">>>>

\* The declared settings the environment leaves empty or undefined, in order.
MissingDeclared ==
    LET sel == SelectSeq(DeclaredSettings, LAMBDA d : env[d[1]] = <<>>)
    IN  [k \in 1..Len(sel) |-> sel[k][1]]

SixSettings ==
    {"BUCKET_NAME", "INCOMING_PREFIX", "EMAIL_DOMAIN_NAME", "SENDER_ADDRESS",
     "FORWARDING_ADDRESS", "CONFIGURATION_SET"}

\* The error of GetOptions names the variable v.
ErrorNames(v) ==
    \E k \in 1..Len(options.err.UndefinedVars) : options.err.UndefinedVars[k] = v

(***************************************************************************)
(* C18: the settings GetOptions requires are BUCKET_NAME, INCOMING_PREFIX, *)
(* EMAIL_DOMAIN_NAME, SENDER_ADDRESS, FORWARDING_ADDRESS and               *)
(* CONFIGURATION_SET: GetOptions fails, naming the variable, whenever any  *)
(* one of these six is undefined, and the Options it returns carries the   *)
(* email domain name.                                                      *)
(***************************************************************************)
C18_SixRequiredSettings ==
    options.done =>
        /\ \A v \in SixSettings :
              env[v] = <<>> => (options.isNil /\ ~options.err.isNil /\ ErrorNames(v))
        /\ ~options.isNil =>
              /\ "EmailDomainName" \in DOMAIN options.opts
              /\ options.opts["EmailDomainName"] = env["EMAIL_DOMAIN_NAME"]

\* What holds of C18: the five settings other than EMAIL_DOMAIN_NAME are
\* required and named when undefined.
C18_FiveRequiredSettings ==
    options.done =>
        \A v \in SixSettings \ {"EMAIL_DOMAIN_NAME"} :
            env[v] = <<>> => (options.isNil /\ ~options.err.isNil /\ ErrorNames(v))

\* The success lines written for the key of record k, by any record.
SuccessLinesForKeyOf(k) ==
    SelectSeq(logs, LAMBDA l :
        IsSuccess(l) /\ SubSeq(l.line, 2, 1 + Len(KeyOf(k))) = KeyOf(k))

(***************************************************************************)
(* C19: the pipeline keeps no memory of message ids: when the same passing *)
(* record is processed twice, in one batch or in two HandleEvent calls,    *)
(* the fetch, rewrite and send are each performed twice with the same key, *)
(* and two success observations are written, each with the identifier the  *)
(* transmitter returned for its own send.                                  *)
(***************************************************************************)
C19_NoMemoryOfMessageIds ==
    \A j, k \in 1..Len(records) :
        (j < k /\ records[j] = records[k] /\ PassesValidation(records[k])
               /\ Finished(k)) =>
            /\ Len(CallsOf(j, "GetObject")) = 1
            /\ Len(CallsOf(k, "GetObject")) = 1
            /\ CallsOf(k, "GetObject")[1].input.Key = KeyOf(k)
            /\ CallsOf(k, "GetObject")[1].input = CallsOf(j, "GetObject")[1].input
            /\ RewriteOk(k) =>
                  /\ Len(CallsOf(k, "SendEmail")) = 1
                  /\ CallsOf(k, "SendEmail")[1].input.Data = RewrittenFetch(k).bytes
            /\ SendOk(k) =>
                  TerminalsOf(k)[1].line =
                      SuccessLine(k, CallsOf(k, "SendEmail")[1].resp.id)
            /\ (SendOk(j) /\ SendOk(k)) =>
                  /\ TerminalsOf(j)[1].line =
                        SuccessLine(j, CallsOf(j, "SendEmail")[1].resp.id)
                  /\ Len(SuccessLinesForKeyOf(k)) >= 2

\* The same record came in two HandleEvent calls and was forwarded twice,
\* as fwd-1 and as fwd-2.
C19_Witness ==
    /\ Returned
    /\ invocations = 2
    /\ Len(records) = 2
    /\ records[1] = records[2]
    /\ SendOk(1) /\ SendOk(2)
    /\ CallsOf(1, "SendEmail")[1].resp.id # CallsOf(2, "SendEmail")[1].resp.id
    /\ Len(SuccessLinesForKeyOf(1)) = 2

\* The same record came twice in one batch and was forwarded twice.
C19_WitnessOneBatch ==
    /\ Returned
    /\ invocations = 1
    /\ Len(records) = 2
    /\ records[1] = records[2]
    /\ SendOk(1) /\ SendOk(2)
    /\ Len(SuccessLinesForKeyOf(1)) = 2

\* The terminal line of record k reports the message as spam.
ReportedAsSpam(k) ==
    /\ TerminalsOf(k) # <<>>
    /\ TerminalsOf(k)[1].line = FailLine(k, <<"marked as spam, ignoring">>)

(***************************************************************************)
(* C20: validateMessage is a total three-way classifier over all verdict   *)
(* combinations, compared case-insensitively: it takes the bounce path iff *)
(* DMARC verdict = FAIL and DMARC policy = REJECT (a record that also has  *)
(* a FAIL among SPF/DKIM/Spam/Virus is bounced, never reported as 'marked  *)
(* as spam'); otherwise it rejects iff some SPF/DKIM/Spam/Virus verdict =  *)
(* FAIL; otherwise it returns nil and the record is fetched.               *)
(***************************************************************************)
C20_ThreeWayClassifier ==
    \A k \in 1..Len(records) :
        Finished(k) =>
            /\ DmarcBounceCondition(records[k]) <=> Len(CallsOf(k, "SendBounce")) = 1
            /\ DmarcBounceCondition(records[k]) => ~ReportedAsSpam(k)
            /\ (~DmarcBounceCondition(records[k]) /\ AnyVerdictFails(records[k])) =>
                  /\ ReportedAsSpam(k)
                  /\ CallsOf(k, "GetObject") = <<>>
            /\ (~DmarcBounceCondition(records[k]) /\ ~AnyVerdictFails(records[k])) =>
                  /\ CallsOf(k, "SendBounce") = <<>>
                  /\ Len(CallsOf(k, "GetObject")) = 1

\* What holds of C20: the classification of every record that does not
\* meet the bounce condition, and the bounce call for those that do.
C20_ClassifierWithoutBounce ==
    \A k \in 1..Len(records) :
        Finished(k) =>
            /\ DmarcBounceCondition(records[k]) <=> Len(CallsOf(k, "SendBounce")) = 1
            /\ (~DmarcBounceCondition(records[k]) /\ AnyVerdictFails(records[k])) =>
                  /\ ReportedAsSpam(k)
                  /\ CallsOf(k, "GetObject") = <<>>
            /\ (~DmarcBounceCondition(records[k]) /\ ~AnyVerdictFails(records[k])) =>
                  /\ CallsOf(k, "SendBounce") = <<>>
                  /\ Len(CallsOf(k, "GetObject")) = 1

(***************************************************************************)
(* C21: SendBounce is called at most once per record, and a record that    *)
(* has been processed has its SendBounce call exactly when its DMARC       *)
(* verdict is FAIL and its DMARC policy is REJECT (in any letter case):    *)
(* none for a record with only an SPF, DKIM, Spam or Virus FAIL, for a     *)
(* DMARC FAIL under another policy, or for a record that passes.           *)
(***************************************************************************)
C21_BounceOnlyOnDmarcReject ==
    /\ \A c \in 1..Len(calls) :
          calls[c].op = "SendBounce" => calls[c].rec \in 1..Len(records)
    /\ \A k \in 1..Len(records) :
          /\ Len(CallsOf(k, "SendBounce")) <= 1
          /\ CallsOf(k, "SendBounce") # <<>> => DmarcBounceCondition(records[k])
          /\ (Finished(k) /\ DmarcBounceCondition(records[k])) =>
                Len(CallsOf(k, "SendBounce")) = 1

\* A record with a DMARC failure under policy quarantine and a failing SPF
\* verdict was dropped without a bounce.
C21_Witness ==
    /\ Returned
    /\ Len(records) = 1
    /\ EqualFold(records[1].dmarcVerdict, V_FAIL)
    /\ records[1].dmarcPolicy = P_quarantine
    /\ EqualFold(records[1].spfVerdict, V_FAIL)
    /\ TerminalsOf(1) # <<>>
    /\ CallsOf(1, "SendBounce") = <<>>

\* A record under 'Fail' and 'Reject' was bounced, once.
C21_WitnessBounced ==
    /\ Returned
    /\ Len(records) = 1
    /\ records[1].dmarcVerdict = V_Fail
    /\ records[1].dmarcPolicy = P_Reject
    /\ Len(CallsOf(1, "SendBounce")) = 1

(***************************************************************************)
(* C22: the bounce request built for a record with recipients r_1..r_n     *)
(* lists exactly n bounced recipients; entry k names r_k and has bounce    *)
(* type ContentRejected.                                                   *)
(***************************************************************************)
C22_OneEntryPerRecipient ==
    \A c \in 1..Len(calls) :
        calls[c].op = "SendBounce" =>
            LET list == calls[c].input.BouncedRecipientInfoList
                rcpts == records[calls[c].rec].recipients
            IN  /\ Len(list) = Len(rcpts)
                /\ \A k \in 1..Len(rcpts) :
                      /\ list[k].Recipient = rcpts[k]
                      /\ list[k].BounceType = "ContentRejected"

\* A bounce was requested for a record with two different recipients.
C22_Witness ==
    \E c \in 1..Len(calls) :
        /\ calls[c].op = "SendBounce"
        /\ Len(records[calls[c].rec].recipients) = 2
        /\ records[calls[c].rec].recipients[1] # records[calls[c].rec].recipients[2]
        /\ Len(calls[c].input.BouncedRecipientInfoList) = 2

(***************************************************************************)
(* Vocabulary of the stage order of processMessage.                        *)
(***************************************************************************)
\* Position of a call among the stages of one record: the bounce belongs
\* to validation, GetObject to the fetch, SendEmail to the send.
StageOf(op) ==
    CASE op = "SendBounce" -> 1
      [] op = "GetObject"  -> 2
      [] op = "SendEmail"  -> 4

\* The rewrite of the current record has run and succeeded on the bytes
\* its fetch returned.
RewroteFetched(k) ==
    /\ msgOut.done
    /\ msgOut.err.isNil
    /\ msgIn = CallsOf(k, "GetObject")[1].resp.body

(***************************************************************************)
(* C23: within one record the stages run in the order validate, fetch,     *)
(* rewrite, send, each only if every earlier stage of the record           *)
(* succeeded: at most one GetObject and at most one send per record, a     *)
(* send always after a successful GetObject and a successful rewrite of    *)
(* the same record, and no stage again after a failure.                    *)
(***************************************************************************)
C23_StagesInOrder ==
    /\ \A c, d \in 1..Len(calls) :
          (c < d /\ calls[c].rec = calls[d].rec) =>
              StageOf(calls[c].op) < StageOf(calls[d].op)
    /\ \A k \in 1..Len(records) :
          /\ Len(CallsOf(k, "GetObject")) <= 1
          /\ Len(CallsOf(k, "SendEmail")) <= 1
          /\ CallsOf(k, "GetObject") # <<>> => ValidationOk(k)
          /\ CallsOf(k, "SendEmail") # <<>> =>
                /\ ValidationOk(k)
                /\ FetchedBytes(k)
          /\ Len(TerminalsOf(k)) <= 1
          /\ (TerminalsOf(k) # <<>> /\ IsFailure(TerminalsOf(k)[1])) =>
                (Finished(k) /\ Len(LinesOf(k)) = 2)
    /\ (pc = "validate") => \A c \in 1..Len(calls) : calls[c].rec # i
    /\ (pc = "fetch") =>
          /\ ValidationOk(i)
          /\ CallsOf(i, "GetObject") = <<>>
          /\ ~msgOut.done
    /\ (pc = "update") =>
          /\ ValidationOk(i)
          /\ FetchedBytes(i)
          /\ orig = CallsOf(i, "GetObject")[1].resp.body
          /\ ~msgOut.done
          /\ CallsOf(i, "SendEmail") = <<>>
    /\ (pc = "forward") =>
          /\ ValidationOk(i)
          /\ FetchedBytes(i)
          /\ RewroteFetched(i)
          /\ CallsOf(i, "SendEmail") = <<>>
    /\ (pc = "next" /\ CallsOf(i, "SendEmail") # <<>>) => RewroteFetched(i)

\* A batch where one record ran all four stages and the other stopped at
\* its failed rewrite, after its fetch.
C23_Witness ==
    /\ Returned
    /\ Len(records) = 2
    /\ \E k \in 1..2 :
          /\ AllStagesSucceeded(k)
          /\ FetchedBytes(3 - k)
          /\ ~RewriteOk(3 - k)
          /\ CallsOf(3 - k, "SendEmail") = <<>>
          /\ IsFailure(TerminalsOf(3 - k)[1])

(***************************************************************************)
(* Vocabulary of the properties of the headerBuffer.                       *)
(***************************************************************************)
\* How many Write calls WriteUpdatedHeaders makes for the header lines h
\* when none fails: From, Reply-To, one per kept line, and the provenance
\* line with the blank line.
WritesFor(h) == 3 + Len(SelectSeq(h, LAMBDA l : FoldedRank(l.name) > 0))

\* The number of line ends in a text.
LineEnds(b) == Cardinality({k \in 1..Len(b) : b[k] = CRLF})

\* a is the beginning of b.
IsPrefix(a, b) == Len(a) <= Len(b) /\ SubSeq(b, 1, Len(a)) = a

\* What reaches a writer that never fails, for the same input.
UnfailingOutput(b) == updateMessage(b, RewriteKey).written

\* The headerBuffer after WriteUpdatedHeaders on the header lines h, whose
\* From value parses or not, with a writer failing at its f-th Write (n is
\* the number of writes of an unfailing run, full what it writes).
BufferAsClaimed(hbuf, res, h, parses, f, n, full) ==
    IF ~parses
    THEN /\ hbuf.writes = 0
         /\ hbuf.buf = <<>>
         /\ ~res.isNil
         /\ IsPrefix(<<"error updating email headers: ", "couldn't parse From address ">>
                        \o FirstValue(h, H_From), res.msg)
    ELSE IF f \in 1..n
    THEN /\ hbuf.writes = f
         /\ LineEnds(hbuf.buf) = f - 1
         /\ IsPrefix(hbuf.buf, full)
         /\ (f > 1) => hbuf.buf[Len(hbuf.buf)] = CRLF
         /\ hbuf.err = Err(<<"write error">>)
         /\ res = Err(<<"error updating email headers: ", "write error">>)
    ELSE /\ hbuf.writes = n
         /\ LineEnds(hbuf.buf) = n + 1
         /\ hbuf.buf = full
         /\ hbuf.err.isNil
         /\ res.isNil

(***************************************************************************)
(* C24: a headerBuffer passes a write on to its writer exactly while no    *)
(* error is recorded: every header line is written as long as none         *)
(* failed, and after the first failed write, or after a From value that    *)
(* does not parse, no further Write reaches the writer, the recorded       *)
(* error stays, and WriteUpdatedHeaders returns 'error updating email      *)
(* headers: <first cause>'.                                                *)
(***************************************************************************)
C24_WritesStopAtFirstError ==
    (pc = "written") =>
        BufferAsClaimed(buffer, msgOut.err, HeaderLinesOf(msgIn),
                        ParseAddress(FirstValue(HeaderLinesOf(msgIn), H_From)).err.isNil,
                        buffer.failAt, WritesFor(HeaderLinesOf(msgIn)),
                        UnfailingOutput(msgIn))

\* The third of five writes failed: two lines reached the writer.
C24_Witness ==
    /\ pc = "written"
    /\ WritesFor(HeaderLinesOf(msgIn)) = 5
    /\ buffer.failAt = 3
    /\ buffer.writes = 3
    /\ LineEnds(buffer.buf) = 2
    /\ ~msgOut.err.isNil

\* The From value did not parse although the writer would have failed later.
C24_WitnessParseFailure ==
    /\ pc = "written"
    /\ FirstValue(HeaderLinesOf(msgIn), H_From) = F_Malformed
    /\ buffer.failAt = 2
    /\ buffer.writes = 0
    /\ ~msgOut.err.isNil

(***************************************************************************)
(* Vocabulary of the MIME-Version header.                                  *)
(***************************************************************************)
\* The values of the lines whose name is spelled exactly name, in order.
ValuesSpelled(lines, name) ==
    LET sel == SelectSeq(lines, LAMBDA l : l.name = name)
    IN  [k \in 1..Len(sel) |-> sel[k].value]

(***************************************************************************)
(* C25: whenever the original message carries a MIME-Version header, in    *)
(* any letter case of the name, the rewritten message holds its values     *)
(* unchanged under the name spelled exactly 'MIME-Version', and no line    *)
(* named 'Mime-Version' or in any other spelling of the name.              *)
(***************************************************************************)
C25_MimeVersionSpelling ==
    (RewriteSucceeded /\ WellFormedInput
        /\ ValuesNamed(OrigHeaders, H_MIMEVersion) # <<>>) =>
        /\ ValuesSpelled(OutHeaders, H_MIMEVersion) = ValuesNamed(OrigHeaders, H_MIMEVersion)
        /\ ValuesNamed(OutHeaders, H_MIMEVersion) = ValuesSpelled(OutHeaders, H_MIMEVersion)
        /\ ValuesSpelled(OutHeaders, H_MimeVersion) = <<>>

\* The original spelled the name 'Mime-Version'.
C25_Witness ==
    /\ RewriteSucceeded
    /\ OrigHeaders = <<L_FromNamed, L_MimeVersionTitle, L_To1>>
    /\ ValuesSpelled(OutHeaders, H_MIMEVersion) = <<L_MimeVersionTitle.value>>

\* The original carried the header three times, in three spellings.
C25_WitnessThreeSpellings ==
    /\ RewriteSucceeded
    /\ Len(ValuesNamed(OrigHeaders, H_MIMEVersion)) = 3
    /\ Len(ValuesSpelled(OrigHeaders, H_MIMEVersion)) = 1
    /\ Len(ValuesSpelled(OutHeaders, H_MIMEVersion)) = 3

(***************************************************************************)
(* Vocabulary of the provenance header.                                    *)
(***************************************************************************)
\* bytes is a rewritten message of record k with header lines out, made
\* from an original with the given body: one provenance line, the last of
\* the header block, naming the record's object; then one blank line and
\* the body.
ProvenanceAsClaimed(out, body, bytes, k) ==
    /\ out # <<>>
    /\ Len(ValuesNamed(out, ProvenanceName)) = 1
    /\ out[Len(out)].name = ProvenanceName
    /\ out[Len(out)].value =
          <<"s3://">> \o BucketName \o <<"/">> \o IncomingPrefix \o <<"/">>
                     \o records[k].messageId
    /\ bytes = BuildHeaderBlock(out) \o <<CRLF>> \o body

\* The object named by the value of a provenance line: what follows
\* 's3://<bucket>/'.
ObjectKeyIn(value) == SubSeq(value, 2 + Len(BucketName) + 1, Len(value))

\* The key by which record k was fetched is the one of its lines.
FetchedByLoggedKey(k, key) ==
    /\ CallsOf(k, "GetObject") # <<>>
    /\ CallsOf(k, "GetObject")[1].input.Key = key
    /\ CallsOf(k, "GetObject")[1].input.Bucket = BucketName
    /\ \A l \in 1..Len(LinesOf(k)) :
          SubSeq(LinesOf(k)[l].line, 2, 1 + Len(key)) = key

(***************************************************************************)
(* C26: every successfully rewritten message holds exactly one provenance  *)
(* header; it is the last header line, followed by exactly one blank line, *)
(* and its value is 's3://<bucket>/<incomingPrefix>/<messageId>', whose    *)
(* key is the key the original was fetched by and the key of the record's  *)
(* observation lines.                                                      *)
(***************************************************************************)
C26_ProvenanceHeader ==
    (msgOut.done /\ msgOut.err.isNil /\ i \in 1..Len(records)) =>
        \E out \in {HeaderLinesOf(msgOut.bytes)} :
            /\ ProvenanceAsClaimed(out, BodyOf(msgIn), msgOut.bytes, i)
            /\ FetchedByLoggedKey(i, ObjectKeyIn(out[Len(out)].value))
            /\ msgIn = CallsOf(i, "GetObject")[1].resp.body
            /\ \A c \in SendCalls :
                  calls[c].rec = i => calls[c].input.Data = msgOut.bytes

\* Two records with different ids were rewritten and sent, from an original
\* that carried a provenance header already.
C26_Witness ==
    /\ pc = "next"
    /\ Len(records) = 2
    /\ i = 2
    /\ records[1].messageId # records[2].messageId
    /\ Len(CallsOf(1, "SendEmail")) = 1
    /\ Len(CallsOf(2, "SendEmail")) = 1
    /\ Len(ValuesNamed(HeaderLinesOf(msgIn), ProvenanceName)) = 1
    /\ msgOut.done /\ msgOut.err.isNil
    /\ CallsOf(1, "SendEmail")[1].input.Data # msgOut.bytes

(***************************************************************************)
(* Vocabulary of messages that do not parse.                               *)
(***************************************************************************)
\* An empty line of b is at position k.
BlankLineAt(b, k) == b[k] = CRLF /\ (k = 1 \/ b[k-1] = CRLF)

\* The line of b that ends at position j holds a colon.
LineHasColon(b, j) ==
    \E c \in 1..(j-1) : b[c] = ":" /\ \A m \in c..(j-1) : b[m] # CRLF

\* b is not a header block followed by a blank line and a body: it has no
\* empty line, or a line before its first empty line is not a header.
HasNoHeaderBlock(b) ==
    \A k \in 1..Len(b) :
        BlankLineAt(b, k) =>
            \E j \in 1..(k-1) : b[j] = CRLF /\ ~LineHasColon(b, j)

\* The reason of a parse failure: the fixed text and a cause.
IsParseFailure(msg) ==
    /\ Len(msg) > 1
    /\ msg[1] = "failed to parse message: "

(***************************************************************************)
(* C27: when the fetched bytes do not parse as a message with a header     *)
(* block, updateMessage returns no bytes and an error 'failed to parse     *)
(* message: <cause>'; the record's terminal line carries that reason and   *)
(* no send is attempted for the record.                                    *)
(***************************************************************************)
C27_ParseFailure ==
    /\ (msgOut.done /\ HasNoHeaderBlock(msgIn)) =>
          /\ msgOut.bytes = <<>>
          /\ msgOut.written = <<>>
          /\ ~msgOut.err.isNil
          /\ IsParseFailure(msgOut.err.msg)
          /\ (pc = "next" /\ i \in 1..Len(records)) =>
                /\ Len(TerminalsOf(i)) = 1
                /\ TerminalsOf(i)[1].line = FailLine(i, msgOut.err.msg)
    /\ \A k \in 1..Len(records) :
          (FetchedBytes(k) /\ HasNoHeaderBlock(CallsOf(k, "GetObject")[1].resp.body)) =>
              /\ CallsOf(k, "SendEmail") = <<>>
              /\ Finished(k) =>
                    /\ Len(TerminalsOf(k)) = 1
                    /\ IsFailure(TerminalsOf(k)[1])
                    /\ IsParseFailure(SubSeq(TerminalsOf(k)[1].line, 3 + Len(KeyOf(k)),
                                             Len(TerminalsOf(k)[1].line)))

\* The object of the first record was not a message; the second record
\* was forwarded.
C27_Witness ==
    /\ Returned
    /\ Len(records) = 2
    /\ FetchedBytes(1)
    /\ HasNoHeaderBlock(CallsOf(1, "GetObject")[1].resp.body)
    /\ IsFailure(TerminalsOf(1)[1])
    /\ AllStagesSucceeded(2)

(***************************************************************************)
(* C28: HandleEvent processes the records of a batch one after another in  *)
(* batch order: the terminal line of record k is written before the start  *)
(* line of record k+1, and no bounce, fetch or send call of record k+1     *)
(* is made before the last call of record k has returned.                  *)
(***************************************************************************)
C28_RecordsInBatchOrder ==
    /\ \A a, b \in 1..Len(logs) : a < b => logs[a].rec <= logs[b].rec
    /\ \A c, d \in 1..Len(calls) : c < d => calls[c].rec <= calls[d].rec
    /\ \A b \in 1..Len(logs) :
          (IsStart(logs[b]) /\ logs[b].rec > 1) =>
              /\ b > 1
              /\ logs[b-1].rec = logs[b].rec - 1
              /\ IsTerminal(logs[b-1])
    /\ \A k \in 1..Len(records) :
          /\ (LinesOf(k) # <<>> \/ \E c \in 1..Len(calls) : calls[c].rec = k) =>
                /\ IsStart(LinesOf(k)[1])
                /\ \A j \in 1..(k-1) : Finished(j) /\ Len(TerminalsOf(j)) = 1
          /\ (TerminalsOf(k) # <<>>) => Finished(k)
          /\ (pc \in {"process", "validate", "fetch", "update", "forward", "next"}
                /\ k > i) =>
                (LinesOf(k) = <<>> /\ \A c \in 1..Len(calls) : calls[c].rec # k)

\* The second record of a batch made calls after the first one had made
\* its own and had its terminal line written.
C28_Witness ==
    /\ Len(records) = 2
    /\ pc = "forward"
    /\ i = 2
    /\ CallsOf(1, "SendBounce") # <<>>
    /\ Len(TerminalsOf(1)) = 1
    /\ CallsOf(2, "GetObject") # <<>>
    /\ TerminalsOf(2) = <<>>

(***************************************************************************)
(* C29: every successfully rewritten message holds exactly one From line   *)
(* and exactly one Reply-To line, and the Reply-To value is never empty:   *)
(* only the first original From value and the first original Reply-To      *)
(* value are used when the original has several, and an original Reply-To  *)
(* present with an empty value is treated as absent and replaced by the    *)
(* original From value.                                                    *)
(***************************************************************************)
C29_OneFromOneReplyTo ==
    (RewriteSucceeded /\ WellFormedInput) =>
        \E from \in {ValuesNamed(OutHeaders, H_From)},
           reply \in {ValuesNamed(OutHeaders, H_ReplyTo)},
           origFroms \in {ValuesNamed(OrigHeaders, H_From)},
           origReplies \in {ValuesNamed(OrigHeaders, H_ReplyTo)} :
            /\ Len(from) = 1
            /\ Len(reply) = 1
            /\ reply[1] # <<>>
            /\ origFroms # <<>>
            /\ Contains(from[1], FirstAtReplaced(ParseAddress(origFroms[1]).Address))
            /\ reply[1] = IF origReplies = <<>> \/ origReplies[1] = <<>>
                          THEN origFroms[1]
                          ELSE origReplies[1]

\* An empty Reply-To line ahead of a filled one: the From value is used.
C29_Witness ==
    /\ RewriteSucceeded
    /\ OrigHeaders = <<L_ReplyToEmpty, L_FromQuoted, L_ReplyTo>>
    /\ ValuesNamed(OutHeaders, H_ReplyTo) = <<F_QuotedLocal>>

\* Two From lines with different values: the first one is used.
C29_WitnessTwoFroms ==
    /\ RewriteSucceeded
    /\ ValuesNamed(OrigHeaders, H_From) = <<F_QuotedLocal, F_Named>>
    /\ ValuesNamed(OrigHeaders, H_ReplyTo) = <<R_Addr>>
    /\ Len(ValuesNamed(OutHeaders, H_From)) = 1

(***************************************************************************)
(* Vocabulary of the independence of records.                              *)
(***************************************************************************)
\* The responses the collaborators gave to the calls of record k.
ResponsesOf(k, op) ==
    [c \in 1..Len(CallsOf(k, op)) |-> CallsOf(k, op)[c].resp]

InputsOf(k, op) ==
    [c \in 1..Len(CallsOf(k, op)) |-> CallsOf(k, op)[c].input]

TextsOf(k) == [l \in 1..Len(LinesOf(k)) |-> LinesOf(k)[l].line]

\* The two lines of a record with the given key and terminal text.
TwoLines(key, terminal) == <<<<"forwarding message ">> \o key, terminal>>

FailureText(key, err) == <<"failed to forward message ">> \o key \o <<": ">> \o err.msg

\* What was seen of a record: its lines and the inputs of its calls.
Seen(lines, bounce, get, send) ==
    [lines |-> lines, bounce |-> bounce, get |-> get, send |-> send]

\* seen is what a record does when it is the only thing the handler ever
\* saw: the calls and the lines of processMessage for the record info,
\* given the responses b, g, s (each empty or one response) of SendBounce,
\* GetObject and SendEmail.  Nothing but info and the responses enters.
AloneAfterRewrite(key, u, s, made, seen) ==
    IF ~u.err.isNil
    THEN /\ s = <<>>
         /\ seen = Seen(TwoLines(key, FailureText(key, u.err)), made.bounce, made.get, <<>>)
    ELSE /\ Len(s) = 1
         /\ seen = Seen(TwoLines(key,
                          IF ~s[1].err.isNil
                          THEN FailureText(key, Err(<<"send failed: ">> \o s[1].err.msg))
                          ELSE <<"successfully forwarded message ">> \o key
                                   \o <<" as ">> \o s[1].id),
                        made.bounce, made.get,
                        <<[ConfigurationSetName |-> ConfigurationSet, Data |-> u.bytes,
                           ToAddresses |-> <<ForwardingAddress>>]>>)

AloneAfterFetch(key, g, s, made, seen) ==
    /\ Len(g) = 1
    /\ IF ~g[1].err.isNil \/ ~g[1].readErr.isNil
       THEN /\ s = <<>>
            /\ seen = Seen(TwoLines(key, FailureText(key,
                               Err(<<"failed to get original message: ">>
                                   \o (IF ~g[1].err.isNil THEN g[1].err.msg
                                       ELSE g[1].readErr.msg)))),
                           made.bounce, made.get, <<>>)
       ELSE \E u \in {Rewritten(g[1].body, key)} :
                AloneAfterRewrite(key, u, s, made, seen)

Alone(info, b, g, s, seen) ==
    LET key  == IncomingPrefix \o <<"/">> \o info.messageId
        made == [bounce |-> IF DmarcBounceCondition(info)
                            THEN <<SendBounceInput(info)>> ELSE <<>>,
                 get |-> <<[Bucket |-> BucketName, Key |-> key]>>]
        stop(text) ==
            /\ g = <<>>
            /\ s = <<>>
            /\ seen = Seen(TwoLines(key, FailureText(key, Err(text))),
                           made.bounce, <<>>, <<>>)
    IN  /\ Len(b) = Len(made.bounce)
        /\ IF b # <<>> /\ ~b[1].err.isNil
           THEN stop(<<"DMARC bounce failed: ">> \o b[1].err.msg)
           ELSE IF b # <<>> /\ b[1].id # <<>>
           THEN stop(<<"DMARC bounced with bounce ID: ">> \o b[1].id)
           ELSE IF AnyVerdictFails(info)
           THEN stop(<<"marked as spam, ignoring">>)
           ELSE AloneAfterFetch(key, g, s, made, seen)

(***************************************************************************)
(* C30: the outcome of a record depends only on that record and on what    *)
(* the collaborators return for it: in two batches that are equal except   *)
(* for record k, every other record j makes the same bounce, fetch and     *)
(* send calls and writes the same lines in both runs.  Stated on one run:  *)
(* when HandleEvent has returned, the calls and lines of every record are  *)
(* those of the record processed alone with the same responses, whatever   *)
(* the other records of the batch are and whatever happened to them.       *)
(***************************************************************************)
C30_RecordsAreIndependent ==
    Returned =>
        \A j \in 1..Len(records) :
            \E b \in {ResponsesOf(j, "SendBounce")},
               g \in {ResponsesOf(j, "GetObject")},
               s \in {ResponsesOf(j, "SendEmail")},
               seen \in {Seen(TextsOf(j), InputsOf(j, "SendBounce"),
                              InputsOf(j, "GetObject"), InputsOf(j, "SendEmail"))} :
                Alone(records[j], b, g, s, seen)

\* The same record, forwarded with the same responses, stands after a
\* record that was bounced in one batch.
C30_Witness ==
    /\ Returned
    /\ Len(records) = 2
    /\ DmarcBounceCondition(records[1])
    /\ CallsOf(1, "SendBounce") # <<>>
    /\ records[1].messageId # records[2].messageId
    /\ AllStagesSucceeded(2)

\* ... and after a record whose rewrite failed in another.
C30_WitnessOtherBatch ==
    /\ Returned
    /\ Len(records) = 2
    /\ FetchedBytes(1)
    /\ ~RewriteOk(1)
    /\ records[1].messageId # records[2].messageId
    /\ AllStagesSucceeded(2)

====
